---- MODULE Spec2Model ----
(***************************************************************************)
(* A model of ddbug's structural diff/print engine: the sorted merge-join  *)
(* (MergeIterator), the weighted aligner (shortest_path), and the          *)
(* PrintState / DiffState cursors with their scopes.                       *)
(***************************************************************************)
EXTENDS Integers, Sequences, FiniteSets, TLC

\* ------------------------------------------------------------------ bounds
\* Longest list handed to the merge-join, and to the aligner before an insertion.
MaxLen == 2
\* Longest parameter list of a function taking part in the merge-join.
MaxParams == 1
\* Longest list of enumerators of an enumeration type that is printed or diffed.
MaxEnumerators == 1
\* Most scope calls open at once when the calls are any calls.
MaxDepth == 2
\* Most lines held by the output and the scratch buffers when the calls are any calls.
MaxLines == 1
MaxMembers == 2
\* The largest --inline-depth given; inlined subroutines nest one level deeper.
MaxInline == 3
\* Most writes the HtmlPrinter has made when it is called.
MaxWrites == 6
MaxNamespaces == 3

\* ------------------------------------------------------------------ state
VARIABLES
    mpc,        \* merge-join: position in DiffState::sort_list
    in_a,       \* merge-join: the functions of side A, as handed to sort_list
    in_b,       \* merge-join: the functions of side B, as handed to sort_list
    list_a,     \* merge-join: list_a after sort_by
    list_b,     \* merge-join: list_b after sort_by
    iter,       \* merge-join: the MergeIterator
    merged,     \* merge-join: the MergeResults collected so far
    apc,        \* aligner: position in shortest_path
    kind,       \* aligner: the DiffList implementation of the items
    item1,      \* aligner: the first list
    item2,      \* aligner: the second list
    node,       \* aligner: the grid of Nodes, indexed index1 + index2 * len1
    heap,       \* aligner: the States in the BinaryHeap
    result,     \* aligner: the returned Vec<Direction>
    epc,        \* engine: position of the traversal that drives the cursors
    options,    \* engine: the Options (lib.rs: Flags) the run was given
    types_a,    \* engine: the types of side A handed to sort_list
    types_b,    \* engine: the types of side B handed to sort_list
    units_a,    \* engine: the units of file A handed to diff_file
    units_b,    \* engine: the units of file B handed to diff_file
    functions_a, \* engine: the function of side A handed to Subprogram::diff
    functions_b, \* engine: the function of side B handed to Subprogram::diff
    html,       \* engine: the HtmlPrinter, its writer being the real output
    state,      \* engine: the DiffState, a PrintState for each side
    out,        \* engine: the lines written to the real output
    bufs,       \* engine: the scratch buffers of the open DiffState::diff calls
    frames,     \* engine: the open scope calls, with the values they saved
    todo,       \* engine: the calls the traversal has still to make
    last        \* engine: the call the traversal made last

mergeVars == <<mpc, in_a, in_b, list_a, list_b, iter, merged>>
alignVars == <<apc, kind, item1, item2, node, heap, result>>
engineVars ==
    <<epc, options, types_a, types_b, units_a, units_b, functions_a, functions_b,
      html, state, out, bufs, frames, todo, last>>
vars == <<mergeVars, alignVars, engineVars>>

\* ------------------------------------------------------------ orderings
\* std::cmp::Ordering of two integers (Option<&[u8]> names, type ids, lengths).
CmpNat(x, y) == IF x < y THEN "Less" ELSE IF x > y THEN "Greater" ELSE "Equal"

Min(x, y) == IF x < y THEN x ELSE y

\* Option<T>: <<>> is None, <<x>> is Some(x).
None == <<>>
Some(x) == <<x>>

\* ------------------------------------------------------------ functions
\* The names and parameter types that occur in the modelled files.
Names == {1, 2}
ParamTypes == {1, 2}

ParamLists == UNION {[1..n -> ParamTypes] : n \in 0..MaxParams}

\* A Function as far as its identity goes: a name and its parameters' types.
Functions == [name : Names, parameters : ParamLists]

\* Parameter::cmp_type, on type ids.
cmp_type(pa, pb) == CmpNat(pa, pb)

\* The zipped comparison of two parameter lists in cmp_id_for_sort: the first
\* pair of types that differs decides, then the number of parameters.
RECURSIVE cmp_zip(_, _, _)
cmp_zip(pa, pb, i) ==
    IF i > Min(Len(pa), Len(pb)) THEN CmpNat(Len(pa), Len(pb))
    ELSE IF cmp_type(pa[i], pb[i]) # "Equal" THEN cmp_type(pa[i], pb[i])
    ELSE cmp_zip(pa, pb, i + 1)

\* Mutant of cmp_id: the identity also compares the parameters, as the sort
\* comparator does, so overloads no longer share an identity.
cmp_id_by_signature(a, b) ==
    IF CmpNat(a.name, b.name) # "Equal" THEN CmpNat(a.name, b.name)
    ELSE cmp_zip(a.parameters, b.parameters, 1)

\* Function::cmp_id: namespace and name (the modelled functions have no
\* namespace, so cmp_ns_and_name compares the names).
cmp_id(a, b) == CmpNat(a.name, b.name)

\* Function::cmp_id_for_sort: cmp_id, then the zipped parameter types, then
\* the number of parameters.
cmp_id_for_sort(a, b) ==
    IF cmp_id(a, b) # "Equal" THEN cmp_id(a, b)
    ELSE cmp_zip(a.parameters, b.parameters, 1)

\* <[T]>::sort_by(cmp_id_for_sort) of the functions in S.
SortedBy(S) ==
    CHOOSE s \in [1..Cardinality(S) -> S] :
        /\ \A i, j \in 1..Cardinality(S) : i # j => s[i] # s[j]
        /\ \A i, j \in 1..Cardinality(S) :
              i < j => cmp_id_for_sort(s[i], s[j]) # "Greater"

\* ------------------------------------------------------------- cursors
\* enum DiffPrefix.
DiffPrefixes == {"None", "Equal", "Less", "Greater"}

\* The two PrintStates of a DiffState.
Sides == {"a", "b"}

\* PrintState::new: no indent, DiffPrefix::None, nothing changed.
PrintState_new == [indent |-> 0, prefix |-> "None", diff |-> FALSE]

\* DiffState::new.
DiffState_new == [a |-> PrintState_new, b |-> PrintState_new]

\* The marker PrintState::line writes in front of a line.
PrefixText(prefix) ==
    CASE prefix = "None" -> ""
      [] prefix = "Equal" -> "  "
      [] prefix = "Less" -> "- "
      [] prefix = "Greater" -> "+ "

\* An open scope call: which combinator, the PrintState it works on, its flag
\* argument and the locals it keeps for its exit.
Frame(k) ==
    [kind |-> k, side |-> "a", flag |-> FALSE, a_diff |-> FALSE, b_diff |-> FALSE,
     prev_a |-> "None", prev_b |-> "None"]

Top(s) == s[Len(s)]
Pop(s) == SubSeq(s, 1, Len(s) - 1)

\* The cursors, the writers and the open scopes as one value m.
\* Write::write_all on the writer `w` the running closure was handed: the
\* scratch buffer of the innermost DiffState::diff, else the real output.
Write(m, lines) ==
    IF m.bufs = <<>> THEN [m EXCEPT !.out = @ \o lines]
    ELSE [m EXCEPT !.bufs[Len(m.bufs)] = @ \o lines]

LineSetsDiffAlways(prefix) == prefix # "None"

\* PrintState::line sets self.diff in the arms Less and Greater of its match.
LineSetsDiff(prefix) == prefix \in {"Less", "Greater"}

\* Mutant of PrintState_line: no tab is written.
PrintState_line_untabbed(m, side, body) ==
    LET ps == m.state[side]
        text == [prefix |-> PrefixText(ps.prefix), tabs |-> 0, body |-> body]
        marked == [m EXCEPT !.state[side].diff = IF LineSetsDiff(ps.prefix) THEN TRUE ELSE @]
    IN  Write(marked, <<text>>)

\* PrintState::line: the marker, one tab per indent level, the body, a newline.
PrintState_line(m, side, body) ==
    LET ps == m.state[side]
        text == [prefix |-> PrefixText(ps.prefix), tabs |-> ps.indent, body |-> body]
        marked == [m EXCEPT !.state[side].diff = IF LineSetsDiff(ps.prefix) THEN TRUE ELSE @]
    IN  Write(marked, <<text>>)

\* PrintState::line_option, buf being what its closure rendered.
PrintState_line_option(m, side, buf) ==
    IF buf # <<>> THEN PrintState_line(m, side, buf) ELSE m

\* PrintState::indent up to the call of its closure.
PrintState_indent_begin(m, side) ==
    [m EXCEPT !.state[side].indent = @ + 1,
              !.frames = Append(@, [Frame("PrintState::indent") EXCEPT !.side = side])]

\* PrintState::indent after its closure.
PrintState_indent_end(m) ==
    [m EXCEPT !.state[Top(m.frames).side].indent = @ - 1, !.frames = Pop(@)]

PrintState_prefix_begin_unset(m, side, prefix) ==
    [m EXCEPT !.frames = Append(@, [Frame("PrintState::prefix") EXCEPT
                                        !.side = side, !.prev_a = m.state[side].prefix])]

\* PrintState::prefix up to the call of its closure (DiffState::prefix_less is
\* self.a.prefix(Less, f), DiffState::prefix_greater is self.b.prefix(Greater, f)).
PrintState_prefix_begin(m, side, prefix) ==
    [m EXCEPT !.state[side].prefix = prefix,
              !.frames = Append(@, [Frame("PrintState::prefix") EXCEPT
                                        !.side = side, !.prev_a = m.state[side].prefix])]

\* Mutant of PrintState_prefix_end: the call returns without `self.prefix = prev`.
PrintState_prefix_end_kept(m) == [m EXCEPT !.frames = Pop(@)]

\* PrintState::prefix after its closure.
PrintState_prefix_end(m) ==
    [m EXCEPT !.state[Top(m.frames).side].prefix = Top(m.frames).prev_a,
              !.frames = Pop(@)]

\* DiffState::diff up to the call of its closure.
DiffState_diff_begin(m) ==
    [m EXCEPT !.bufs = Append(@, <<>>),
              !.state.a.diff = FALSE,
              !.state.b.diff = FALSE,
              !.frames = Append(@, Frame("DiffState::diff"))]

FlushAlways(a_diff, b_diff) == TRUE

\* DiffState::diff: `if self.a.diff || self.b.diff`.
Flush(a_diff, b_diff) == a_diff \/ b_diff

\* DiffState::diff after its closure: the buffer goes to `w` or is dropped.
DiffState_diff_end(m) ==
    LET closed == [m EXCEPT !.bufs = Pop(@), !.frames = Pop(@)]
    IN  IF Flush(m.state.a.diff, m.state.b.diff)
        THEN Write(closed, Top(m.bufs))
        ELSE closed

\* Mutant of DiffState_ignore_diff_begin: the locals a_diff and b_diff are not
\* taken from the flags.
DiffState_ignore_diff_begin_unsaved(m, flag) ==
    [m EXCEPT !.frames = Append(@, [Frame("DiffState::ignore_diff") EXCEPT
                                        !.flag = flag])]

\* DiffState::ignore_diff up to the call of its closure.
DiffState_ignore_diff_begin(m, flag) ==
    [m EXCEPT !.frames = Append(@, [Frame("DiffState::ignore_diff") EXCEPT
                                        !.flag = flag,
                                        !.a_diff = m.state.a.diff,
                                        !.b_diff = m.state.b.diff])]

\* Mutant of DiffState_ignore_diff_end: the flags are put back whatever the
\* flag argument.
DiffState_ignore_diff_end_always(m) ==
    LET f == Top(m.frames)
    IN  [m EXCEPT !.state.a.diff = f.a_diff, !.state.b.diff = f.b_diff,
                  !.frames = Pop(@)]

\* DiffState::ignore_diff after its closure.
DiffState_ignore_diff_end(m) ==
    LET f == Top(m.frames)
    IN  IF f.flag
        THEN [m EXCEPT !.state.a.diff = f.a_diff, !.state.b.diff = f.b_diff,
                       !.frames = Pop(@)]
        ELSE [m EXCEPT !.frames = Pop(@)]

\* Mutant of DiffState_indent_begin: only the indent of side A is raised.
DiffState_indent_begin_one_side(m) ==
    [m EXCEPT !.state.a.indent = @ + 1,
              !.frames = Append(@, Frame("DiffState::indent"))]

\* DiffState::indent up to the call of its closure.
DiffState_indent_begin(m) ==
    [m EXCEPT !.state.a.indent = @ + 1, !.state.b.indent = @ + 1,
              !.frames = Append(@, Frame("DiffState::indent"))]

\* DiffState::indent after its closure.
DiffState_indent_end(m) ==
    [m EXCEPT !.state.a.indent = @ - 1, !.state.b.indent = @ - 1, !.frames = Pop(@)]

\* DiffState::prefix_equal up to the call of its closure.
DiffState_prefix_equal_begin(m) ==
    [m EXCEPT !.state.a.prefix = "Equal", !.state.b.prefix = "Equal",
              !.frames = Append(@, [Frame("DiffState::prefix_equal") EXCEPT
                                        !.prev_a = m.state.a.prefix,
                                        !.prev_b = m.state.b.prefix])]

\* DiffState::prefix_diff up to the call of its closure.
DiffState_prefix_diff_begin(m) ==
    [m EXCEPT !.state.a.prefix = "Less", !.state.b.prefix = "Greater",
              !.frames = Append(@, [Frame("DiffState::prefix_diff") EXCEPT
                                        !.prev_a = m.state.a.prefix,
                                        !.prev_b = m.state.b.prefix])]

\* DiffState::prefix_equal and DiffState::prefix_diff after their closure.
DiffState_prefix_end(m) ==
    [m EXCEPT !.state.a.prefix = Top(m.frames).prev_a,
              !.state.b.prefix = Top(m.frames).prev_b,
              !.frames = Pop(@)]

\* The return of the innermost open scope call.
ScopeEnd(m) ==
    LET k == Top(m.frames).kind
    IN  CASE k = "PrintState::indent" -> PrintState_indent_end(m)
          [] k = "PrintState::prefix" -> PrintState_prefix_end(m)
          [] k = "DiffState::diff" -> DiffState_diff_end(m)
          [] k = "DiffState::ignore_diff" -> DiffState_ignore_diff_end(m)
          [] k = "DiffState::indent" -> DiffState_indent_end(m)
          [] k \in {"DiffState::prefix_equal", "DiffState::prefix_diff"} ->
                DiffState_prefix_end(m)

SameBuffersNever(a, b) == FALSE

\* DiffState::line: `if a == b` on the two rendered buffers.
SameBuffers(a, b) == a = b

\* DiffState::line, a and b being what its closure rendered for arg_a and arg_b.
DiffState_line(m, a, b) ==
    IF SameBuffers(a, b)
    THEN DiffState_prefix_end(
             PrintState_line_option(DiffState_prefix_equal_begin(m), "a", a))
    ELSE DiffState_prefix_end(
             PrintState_line_option(
                 PrintState_line_option(DiffState_prefix_diff_begin(m), "a", a),
                 "b", b))

\* Mutant of DiffState_diff_fail: the buffer is written as after a closure that
\* returned Ok.
DiffState_diff_fail_flushing(m) == DiffState_diff_end(m)

\* DiffState::diff when its closure returns Err: `f(&mut buf, self)?` returns,
\* the buffer is dropped.
DiffState_diff_fail(m) == [m EXCEPT !.bufs = Pop(@), !.frames = Pop(@)]

\* DiffState::ignore_diff when its closure returns Err: `f(self)?` returns.
DiffState_ignore_diff_fail(m) == [m EXCEPT !.frames = Pop(@)]

\* The innermost open scope call, its closure having returned Err: the
\* combinators that keep the result in `ret` do what they do after Ok, the ones
\* that use `?` return at once.
ScopeFail(m) ==
    LET k == Top(m.frames).kind
    IN  CASE k = "DiffState::diff" -> DiffState_diff_fail(m)
          [] k = "DiffState::ignore_diff" -> DiffState_ignore_diff_fail(m)
          [] OTHER -> ScopeEnd(m)

\* An Err on its way through every open scope call to the caller of the
\* traversal.
RECURSIVE Unwind(_)
Unwind(m) == IF m.frames = <<>> THEN m ELSE Unwind(ScopeFail(m))

\* PrintState::line when a write after the marker fails: the marker is written
\* and the flag set; with DiffPrefix::None nothing is written before the tabs.
PrintState_line_failed(m, side) ==
    LET ps == m.state[side]
        text == [prefix |-> PrefixText(ps.prefix), tabs |-> 0, body |-> <<>>]
        marked == [m EXCEPT !.state[side].diff = IF LineSetsDiff(ps.prefix) THEN TRUE ELSE @]
    IN  IF ps.prefix = "None" THEN m ELSE Write(marked, <<text>>)

\* DiffState::line when a write fails in the line of side A, or in the line of
\* side B after the line of side A: what it leaves behind.
DiffState_line_failed(m, a, b) ==
    IF SameBuffers(a, b)
    THEN IF a = <<>> THEN {}
         ELSE {DiffState_prefix_end(PrintState_line_failed(DiffState_prefix_equal_begin(m), "a"))}
    ELSE (IF a = <<>> THEN {}
          ELSE {DiffState_prefix_end(
                    PrintState_line_failed(DiffState_prefix_diff_begin(m), "a"))})
         \cup
         (IF b = <<>> THEN {}
          ELSE {DiffState_prefix_end(
                    PrintState_line_failed(
                        PrintState_line_option(DiffState_prefix_diff_begin(m), "a", a),
                        "b"))})

\* HtmlPrinter::new: its writer is the real output.
HtmlPrinter_new(opts) ==
    [indent |-> 0, prefix |-> "None", inline_depth |-> opts.inline_depth,
     line_started |-> FALSE]

\* marksman_escape::Escape on the bytes of a rendered buffer.
escaped(buf) ==
    [i \in 1..Len(buf) |->
        CASE buf[i] = "<" -> "&lt;"
          [] buf[i] = ">" -> "&gt;"
          [] buf[i] = "&" -> "&amp;"
          [] OTHER -> buf[i]]

\* The steps of a method of the HtmlPrinter: a write on self.w, or an
\* assignment to a field of self.
HtmlWrite(text) == [write |-> TRUE, text |-> text, field |-> "indent", val |-> 0]
HtmlSet(field, val) == [write |-> FALSE, text |-> <<>>, field |-> field, val |-> val]

\* The writes among the steps from the i-th on.
RECURSIVE HtmlWrites(_, _)
HtmlWrites(steps, i) ==
    IF i > Len(steps) THEN 0
    ELSE (IF steps[i].write THEN 1 ELSE 0) + HtmlWrites(steps, i + 1)

\* The steps from the i-th on, the k-th write from there returning Err (k = 0:
\* none does): `write!(..)?` returns from the method at once.
RECURSIVE HtmlRun(_, _, _, _)
HtmlRun(p, steps, i, k) ==
    IF i > Len(steps) THEN p
    ELSE IF steps[i].write
         THEN IF k = 1 THEN [p EXCEPT !.ok = FALSE]
              ELSE HtmlRun([p EXCEPT !.out = Append(@, steps[i].text)], steps, i + 1,
                           IF k = 0 THEN 0 ELSE k - 1)
         ELSE HtmlRun([p EXCEPT !.html[steps[i].field] = steps[i].val], steps, i + 1, k)

\* HtmlPrinter::line.
HtmlPrinter_line(hp, label, buf) ==
    (IF hp.line_started THEN <<HtmlWrite(<<"</li>", "\n">>)>> ELSE <<>>)
        \o <<HtmlWrite(<<"<li>">>), HtmlSet("line_started", TRUE)>>
        \o (IF buf = <<>> THEN <<HtmlWrite(label \o <<":">>)>>
            ELSE (IF label # <<>>
                  THEN <<HtmlWrite(<<"<span class=\"field\">">> \o label
                                      \o <<":</span> <span class=\"field\">">>)>>
                  ELSE <<>>)
                 \o <<HtmlWrite(CASE hp.prefix \in {"None", "Equal"} -> <<"<span>">>
                                  [] hp.prefix = "Less" -> <<"<span class=\"del\">">>
                                  [] hp.prefix = "Greater" ->
                                        <<"</span>", "\n", "<span class=\"add\">">>),
                      HtmlWrite(escaped(buf)),
                      HtmlWrite(<<"</span>">>)>>
                 \o (IF label # <<>> THEN <<HtmlWrite(<<"</span>">>)>> ELSE <<>>))

\* HtmlPrinter::indent up to the call of body.
HtmlPrinter_indent_begin(hp) ==
    (IF ~hp.line_started THEN <<HtmlWrite(<<"<li>">>)>> ELSE <<>>)
        \o <<HtmlSet("line_started", FALSE),
              HtmlSet("indent", hp.indent + 1),
              HtmlWrite(<<"<ul>", "\n">>)>>

\* HtmlPrinter::indent after body returned Ok.
HtmlPrinter_indent_end(hp) ==
    (IF hp.line_started THEN <<HtmlWrite(<<"</li>", "\n">>)>> ELSE <<>>)
        \o <<HtmlSet("line_started", TRUE),
              HtmlSet("indent", hp.indent - 1),
              HtmlWrite(<<"</ul>">>)>>

\* A call the traversal makes on the cursors: the combinator, the PrintState it
\* is made on, its flag or prefix argument, and the buffers or lists it is given;
\* for a return, the scope call that returns; for DiffState::list, the DiffList
\* implementation of the items and the depth its closures are given.
Call(op) ==
    [op |-> op, side |-> "a", flag |-> FALSE, prefix |-> "None", scope |-> "none",
     kind |-> "Enumerator", depth |-> 0, a |-> <<>>, b |-> <<>>]

\* The engine is not running.
EngineIdle ==
    /\ epc = "idle"
    /\ options = [ignore_deleted |-> FALSE, ignore_added |-> FALSE]
    /\ types_a = <<>>
    /\ types_b = <<>>
    /\ units_a = <<>>
    /\ units_b = <<>>
    /\ functions_a = <<>>
    /\ functions_b = <<>>
    /\ html = HtmlPrinter_new([inline_depth |-> 0])
    /\ state = DiffState_new
    /\ out = <<>>
    /\ bufs = <<>>
    /\ frames = <<>>
    /\ todo = <<>>
    /\ last = Call("none")

\* ------------------------------------------------------------- aligner
\* enum Direction.
Directions == {"None", "Diagonal", "Horizontal", "Vertical"}

\* usize::MAX, the cost of a Node no path has reached, cut to the width of the
\* model checker's integers; no cost of a path comes near it.
UsizeMAX == 2147483647

\* The DiffList implementations modelled: function parameters and enumerators.
Kinds == {"Parameter", "Enumerator"}

\* An item of either kind: a name, and a type id (Parameter) or value
\* (Enumerator).  As parameters the items are a: i32, b: i32 and a: f64: two
\* items are equal, differ in one field or differ in both.
Items == { [name |-> 1, val |-> 1], [name |-> 2, val |-> 1], [name |-> 1, val |-> 2] }

\* The parameters a: i32, b: i32 and c: i32.
SameTypeItems == { [name |-> 1, val |-> 1], [name |-> 2, val |-> 1], [name |-> 3, val |-> 1] }

\* The list l with x put in before position k.
InsertAt(l, k, x) ==
    [i \in 1..(Len(l) + 1) |-> IF i < k THEN l[i] ELSE IF i = k THEN x ELSE l[i - 1]]

ParameterStepCost == 1
EnumeratorStepCost == 3
EnumeratorNameCost == 4
EnumeratorValueCost == 2

\* Member::step_cost.
MemberStepCost == 1

\* InlinedSubroutine::step_cost.
InlinedSubroutine_step_cost == 1

\* DiffList for Call, for Section and for Symbol: step_cost.
Call_step_cost == 1

Section_step_cost == 1

Symbol_step_cost == 1

\* DiffList::step_cost.
step_cost(k) ==
    CASE k = "Parameter" -> ParameterStepCost
      [] k = "Member" -> MemberStepCost
      [] k = "InlinedSubroutine" -> InlinedSubroutine_step_cost
      [] k = "Call" -> Call_step_cost
      [] k = "Section" -> Section_step_cost
      [] k = "Symbol" -> Symbol_step_cost
      [] OTHER -> EnumeratorStepCost

\* Subprogram::parameter_diff_cost: one for a different name, one for a
\* different type (Type::cmp_id of the two types, both present).
parameter_diff_cost(a, b) ==
    (IF CmpNat(a.name, b.name) # "Equal" THEN 1 ELSE 0)
  + (IF CmpNat(a.val, b.val) # "Equal" THEN 1 ELSE 0)

\* Enumerator::diff_cost.
enumerator_diff_cost(a, b) ==
    (IF CmpNat(a.name, b.name) # "Equal" THEN EnumeratorNameCost ELSE 0)
  + (IF CmpNat(a.val, b.val) # "Equal" THEN EnumeratorValueCost ELSE 0)

\* Mutant of member_diff_cost: every pair of members costs more than two steps.
member_diff_cost_always(a, b) == 2 * MemberStepCost + 1

\* Member::diff_cost: one for a different name, one for a different type
\* (Type::cmp_id of the two types, both present).
member_diff_cost(a, b) ==
    (IF CmpNat(a.name, b.name) # "Equal" THEN 1 ELSE 0)
  + (IF CmpNat(a.val, b.val) # "Equal" THEN 1 ELSE 0)

\* InlinedSubroutine::diff_cost: one for a different function (Subprogram::cmp_id
\* of the two origins), one for a different size.
InlinedSubroutine_diff_cost(a, b) ==
    (IF CmpNat(a.abstract_origin, b.abstract_origin) # "Equal" THEN 1 ELSE 0)
  + (IF a.size # b.size THEN 1 ELSE 0)

\* FileHash::functions_by_address(file).get(&to): the function of the file at
\* the address; of two functions at one address the later insert stays.
functions_by_address_get(functions, to) ==
    LET at == {i \in 1..Len(functions) : functions[i].address = Some(to)}
    IN  IF at = {} THEN None
        ELSE Some(functions[CHOOSE i \in at : \A j \in at : j <= i])

\* DiffList for Call, diff_cost: one for two different functions called
\* (Function::cmp_id) and for a function on one side only.
Call_diff_cost(a, b) ==
    LET function_a == functions_by_address_get(functions_a, a.to)
        function_b == functions_by_address_get(functions_b, b.to)
    IN  CASE function_a # None /\ function_b # None ->
                IF cmp_id(function_a[1], function_b[1]) # "Equal" THEN 1 ELSE 0
          [] function_a = None /\ function_b = None -> 0
          [] OTHER -> 1

\* DiffList for Section, diff_cost: two for a different name or segment.
Section_diff_cost(a, b) ==
    IF CmpNat(a.name, b.name) # "Equal" \/ CmpNat(a.segment, b.segment) # "Equal"
    THEN 2 ELSE 0

\* DiffList for Symbol, diff_cost: two for a different name.
Symbol_diff_cost(a, b) == IF CmpNat(a.name, b.name) # "Equal" THEN 2 ELSE 0

\* DiffList::diff_cost.
diff_cost(k, a, b) ==
    CASE k = "Parameter" -> parameter_diff_cost(a, b)
      [] k = "Member" -> member_diff_cost(a, b)
      [] k = "InlinedSubroutine" -> InlinedSubroutine_diff_cost(a, b)
      [] k = "Call" -> Call_diff_cost(a, b)
      [] k = "Section" -> Section_diff_cost(a, b)
      [] k = "Symbol" -> Symbol_diff_cost(a, b)
      [] OTHER -> enumerator_diff_cost(a, b)

\* Mutant of PopCandidates: State::cmp without the reversal, a max-heap.
PopCandidatesMax(h) == {s \in h : \A t \in h : s.cost >= t.cost}

\* BinaryHeap::pop under State::cmp (other.cost.cmp(&self.cost)): a State of
\* least cost; which one among equals is the heap's choice.
PopCandidates(h) == {s \in h : \A t \in h : s.cost <= t.cost}

\* Mutant of Push: the direction into the node is not recorded.
PushUnmarked(ns, index, index1, index2, cost, from) ==
    IF cost < ns.node[index].cost
    THEN [ node |-> [ns.node EXCEPT ![index] = [@ EXCEPT !.cost = cost]],
           heap |-> ns.heap \cup {[cost |-> cost, index1 |-> index1, index2 |-> index2]} ]
    ELSE ns

\* Mutant of Push: the node is overwritten without comparing the costs.
PushAlways(ns, index, index1, index2, cost, from) ==
    [ node |-> [ns.node EXCEPT ![index] = [@ EXCEPT !.cost = cost, !.from = from]],
      heap |-> ns.heap \cup {[cost |-> cost, index1 |-> index1, index2 |-> index2]} ]

\* push: record the cheaper way into the node and queue it.
Push(ns, index, index1, index2, cost, from) ==
    IF cost < ns.node[index].cost
    THEN [ node |-> [ns.node EXCEPT ![index] = [@ EXCEPT !.cost = cost, !.from = from]],
           heap |-> ns.heap \cup {[cost |-> cost, index1 |-> index1, index2 |-> index2]} ]
    ELSE ns

\* Mutant of DiagonalAllowed: no pair is paired.
DiagonalAllowedNever(dc, sc) == FALSE

\* Mutant of DiagonalAllowed: a pair that saturates may still be paired.
DiagonalAllowedAtThreshold(dc, sc) == dc <= 2 * sc

\* The test that admits a Diagonal edge.
DiagonalAllowed(dc, sc) == dc < 2 * sc

\* Mutant of Expand: the popped node is not marked done.
ExpandUnsettled(ns0, k, l1, l2, index1, index2) ==
    LET len1 == Len(l1) + 1
        index == index1 + index2 * len1
        sc == step_cost(k)
        ns1 == ns0
        ns2 == IF index2 > 0 /\ ~ns1.node[index - len1].done
               THEN Push(ns1, index - len1, index1, index2 - 1,
                         ns1.node[index].cost + sc, "Vertical")
               ELSE ns1
        ns3 == IF index1 > 0 /\ ~ns2.node[index - 1].done
               THEN Push(ns2, index - 1, index1 - 1, index2,
                         ns2.node[index].cost + sc, "Horizontal")
               ELSE ns2
        dc == diff_cost(k, l1[index1], l2[index2])
    IN  IF index1 > 0 /\ index2 > 0 /\ ~ns3.node[index - len1 - 1].done
           /\ DiagonalAllowed(dc, sc)
        THEN Push(ns3, index - len1 - 1, index1 - 1, index2 - 1,
                  ns3.node[index].cost + dc, "Diagonal")
        ELSE ns3

\* The loop body for a popped State that is not settled: settle the node and
\* relax its Vertical, Horizontal and Diagonal neighbours.
Expand(ns0, k, l1, l2, index1, index2) ==
    LET len1 == Len(l1) + 1
        index == index1 + index2 * len1
        sc == step_cost(k)
        ns1 == [ns0 EXCEPT !.node[index].done = TRUE]
        ns2 == IF index2 > 0 /\ ~ns1.node[index - len1].done
               THEN Push(ns1, index - len1, index1, index2 - 1,
                         ns1.node[index].cost + sc, "Vertical")
               ELSE ns1
        ns3 == IF index1 > 0 /\ ~ns2.node[index - 1].done
               THEN Push(ns2, index - 1, index1 - 1, index2,
                         ns2.node[index].cost + sc, "Horizontal")
               ELSE ns2
        dc == diff_cost(k, l1[index1], l2[index2])
    IN  IF index1 > 0 /\ index2 > 0 /\ ~ns3.node[index - len1 - 1].done
           /\ DiagonalAllowed(dc, sc)
        THEN Push(ns3, index - len1 - 1, index1 - 1, index2 - 1,
                  ns3.node[index].cost + dc, "Diagonal")
        ELSE ns3

\* Mutant of StepIndex: the Vertical arm advances index1, as the Horizontal one.
StepIndexCopied(from, index1, index2) ==
    IF from = "Diagonal" THEN <<index1 + 1, index2 + 1>>
    ELSE <<index1 + 1, index2>>

\* The backtracking match: where a step leads from (index1, index2).
StepIndex(from, index1, index2) ==
    IF from = "Diagonal" THEN <<index1 + 1, index2 + 1>>
    ELSE IF from = "Horizontal" THEN <<index1 + 1, index2>>
    ELSE <<index1, index2 + 1>>

\* Mutant of Backtrack: a Vertical step is followed but not pushed.
RECURSIVE BacktrackUnpushed(_, _, _, _, _)
BacktrackUnpushed(nd, len1, index1, index2, acc) ==
    LET index == index1 + index2 * len1
    IN  IF index \notin DOMAIN nd THEN [panic |-> TRUE, path |-> acc]
        ELSE IF nd[index].from = "None" THEN [panic |-> FALSE, path |-> acc]
        ELSE LET nx == StepIndex(nd[index].from, index1, index2)
             IN  BacktrackUnpushed(nd, len1, nx[1], nx[2],
                                   IF nd[index].from = "Vertical" THEN acc
                                   ELSE Append(acc, nd[index].from))

\* Mutant of Backtrack: a Diagonal step is pushed twice.
RECURSIVE BacktrackTwice(_, _, _, _, _)
BacktrackTwice(nd, len1, index1, index2, acc) ==
    LET index == index1 + index2 * len1
    IN  IF index \notin DOMAIN nd THEN [panic |-> TRUE, path |-> acc]
        ELSE IF nd[index].from = "None" THEN [panic |-> FALSE, path |-> acc]
        ELSE LET nx == StepIndex(nd[index].from, index1, index2)
             IN  BacktrackTwice(nd, len1, nx[1], nx[2],
                                IF nd[index].from = "Diagonal"
                                THEN acc \o <<"Diagonal", "Diagonal">>
                                ELSE Append(acc, nd[index].from))

\* The backtracking loop from (index1, index2): the directions pushed until a
\* Node with from = None is met.  An index past the grid is Rust's
\* out-of-bounds panic.
RECURSIVE Backtrack(_, _, _, _, _)
Backtrack(nd, len1, index1, index2, acc) ==
    LET index == index1 + index2 * len1
    IN  IF index \notin DOMAIN nd THEN [panic |-> TRUE, path |-> acc]
        ELSE IF nd[index].from = "None" THEN [panic |-> FALSE, path |-> acc]
        ELSE LET nx == StepIndex(nd[index].from, index1, index2)
             IN  Backtrack(nd, len1, nx[1], nx[2], Append(acc, nd[index].from))

SeqsUpTo(S, n) == UNION {[1..m -> S] : m \in 0..n}

\* The aligner is not running.
AlignIdle ==
    /\ apc = "idle"
    /\ kind = "Parameter"
    /\ item1 = <<>>
    /\ item2 = <<>>
    /\ node = <<>>
    /\ heap = {}
    /\ result = <<>>

MergeIdle ==
    /\ mpc = "idle"
    /\ in_a = {}
    /\ in_b = {}
    /\ list_a = <<>>
    /\ list_b = <<>>
    /\ iter = [pos_left |-> 0, pos_right |-> 0, item_left |-> <<>>, item_right |-> <<>>]
    /\ merged = <<>>

\* shortest_path is entered with two lists of one kind: any two lists, or a
\* list of same-type parameters and that list with one parameter inserted.
InitAlign ==
    /\ apc = "start"
    /\ kind \in Kinds
    /\ \/ /\ item1 \in SeqsUpTo(Items, MaxLen)
          /\ item2 \in SeqsUpTo(Items, MaxLen)
       \/ /\ item1 \in SeqsUpTo(SameTypeItems, MaxLen)
          /\ \E k \in 1..(Len(item1) + 1), x \in SameTypeItems :
                item2 = InsertAt(item1, k, x)
    /\ node = <<>>
    /\ heap = {}
    /\ result = <<>>
    /\ MergeIdle
    /\ EngineIdle

\* shortest_path up to its loop: the grid of unreached Nodes and the push of the
\* end corner at cost 0.
AlignStart ==
    /\ apc = "start"
    /\ LET len1 == Len(item1) + 1
           len2 == Len(item2) + 1
           len == len1 * len2
           fresh == [i \in 0..(len - 1) |->
                        [cost |-> UsizeMAX, from |-> "None", done |-> FALSE]]
           ns == Push([node |-> fresh, heap |-> {}], len - 1, len1 - 1, len2 - 1, 0, "None")
       IN  node' = ns.node /\ heap' = ns.heap
    /\ apc' = "search"
    /\ UNCHANGED <<kind, item1, item2, result, mergeVars, engineVars>>

\* One turn of `while let Some(State {..}) = heap.pop()`: return the script when
\* (0, 0) is popped, skip a settled node, expand any other; panic once the heap
\* is empty.
AlignStep ==
    /\ apc = "search"
    /\ IF heap = {}
       THEN apc' = "panic" /\ UNCHANGED <<node, heap, result>>
       ELSE \E s \in PopCandidates(heap) :
              LET len1 == Len(item1) + 1
                  index == s.index1 + s.index2 * len1
                  popped == heap \ {s}
              IN  IF s.index1 = 0 /\ s.index2 = 0 THEN
                      LET bt == Backtrack(node, len1, 0, 0, <<>>)
                      IN  /\ apc' = IF bt.panic THEN "panic" ELSE "done"
                          /\ result' = bt.path
                          /\ heap' = popped
                          /\ node' = node
                  ELSE IF node[index].done THEN
                      /\ heap' = popped
                      /\ UNCHANGED <<apc, node, result>>
                  ELSE
                      LET ns == Expand([node |-> node, heap |-> popped], kind,
                                       item1, item2, s.index1, s.index2)
                      IN  /\ node' = ns.node
                          /\ heap' = ns.heap
                          /\ UNCHANGED <<apc, result>>
    /\ UNCHANGED <<kind, item1, item2, mergeVars, engineVars>>

NextAlign == AlignStart \/ AlignStep

SpecAlign == InitAlign /\ [][NextAlign]_vars

\* The kinds of entity the aligner is run on.
CostKinds ==
    {"Parameter", "Enumerator", "Member", "InlinedSubroutine", "Call", "Section", "Symbol"}

\* The items of a kind: parameters, enumerators and members as Items,
\* inlined subroutines of two functions and two sizes, calls from address 0 to
\* three addresses, sections of two names in two segments, symbols of two names.
CostItems(k) ==
    CASE k = "InlinedSubroutine" ->
            {[abstract_origin |-> o, size |-> Some(z), inlined_subroutines |-> <<>>] :
                o \in Names, z \in {4, 8}}
      [] k = "Call" -> {[from |-> 0, to |-> t] : t \in 1..3}
      [] k = "Section" -> [name : Names, segment : Names]
      [] k = "Symbol" -> [name : Names]
      [] OTHER -> Items

\* The functions of file A with an address: function 1 at address 1 and
\* function 2 at address 2; nothing is at address 3.
AddressedFunctions(n) ==
    <<[name |-> 1, parameters |-> <<>>, address |-> Some(1)],
      [name |-> n, parameters |-> <<>>, address |-> Some(2)]>>

\* DiffState::list hands shortest_path one item of each file, of any kind;
\* file B has the functions of file A or another function at address 2.
InitCost ==
    /\ apc = "start"
    /\ kind \in CostKinds
    /\ item1 \in {<<x>> : x \in CostItems(kind)}
    /\ item2 \in {<<x>> : x \in CostItems(kind)}
    /\ node = <<>>
    /\ heap = {}
    /\ result = <<>>
    /\ MergeIdle
    /\ epc = "idle"
    /\ options = [ignore_deleted |-> FALSE, ignore_added |-> FALSE]
    /\ types_a = <<>>
    /\ types_b = <<>>
    /\ units_a = <<>>
    /\ units_b = <<>>
    /\ functions_a = AddressedFunctions(2)
    /\ functions_b \in {AddressedFunctions(n) : n \in {2, 3}}
    /\ html = HtmlPrinter_new([inline_depth |-> 0])
    /\ state = DiffState_new
    /\ out = <<>>
    /\ bufs = <<>>
    /\ frames = <<>>
    /\ todo = <<>>
    /\ last = Call("none")

SpecCost == InitCost /\ [][NextAlign]_vars

\* DiffState::list over two lists of enumerators: the aligner run with
\* Enumerator's cost functions, whose script the list diff then walks.
InitList == InitAlign /\ kind = "Enumerator"

SpecList == InitList /\ [][NextAlign]_vars

\* ------------------------------------------------------ aligner: claims
\* The number of A-elements (B-elements) the first n steps of a script consume.
ConsumedA(path, n) ==
    Cardinality({q \in 1..n : path[q] \in {"Diagonal", "Horizontal"}})
ConsumedB(path, n) ==
    Cardinality({q \in 1..n : path[q] \in {"Diagonal", "Vertical"}})

\* The pair cost of the elements step p of a script pairs (0 if it pairs none).
PairCostAt(path, p) ==
    LET i == ConsumedA(path, p)
        j == ConsumedB(path, p)
    IN  IF i <= Len(item1) /\ j <= Len(item2)
        THEN diff_cost(kind, item1[i], item2[j]) ELSE 0

\* The total cost of a script: step_cost per Horizontal and Vertical step,
\* pair_cost per Diagonal step.
RECURSIVE ScriptCost(_, _)
ScriptCost(path, p) ==
    IF p > Len(path) THEN 0
    ELSE (IF path[p] = "Diagonal" THEN PairCostAt(path, p) ELSE step_cost(kind))
         + ScriptCost(path, p + 1)

\* A script leads from corner (0,0) to corner (lenA, lenB).
LeadsToCorner(path) ==
    /\ ConsumedA(path, Len(path)) = Len(item1)
    /\ ConsumedB(path, Len(path)) = Len(item2)

\* A pair of elements is forbidden to a Diagonal step.
Forbidden(a, b) == diff_cost(kind, a, b) >= 2 * step_cost(kind)

SetMin(S) == CHOOSE x \in S : \A y \in S : x <= y

\* The least cost of any script from grid point (i, j) to (lenA, lenB) whose
\* Diagonal steps pair no forbidden pair.
RECURSIVE MinCostFrom(_, _)
MinCostFrom(i, j) ==
    IF i = Len(item1) /\ j = Len(item2) THEN 0
    ELSE SetMin(
           (IF i < Len(item1) THEN {step_cost(kind) + MinCostFrom(i + 1, j)} ELSE {})
     \cup (IF j < Len(item2) THEN {step_cost(kind) + MinCostFrom(i, j + 1)} ELSE {})
     \cup (IF i < Len(item1) /\ j < Len(item2) /\ ~Forbidden(item1[i + 1], item2[j + 1])
           THEN {diff_cost(kind, item1[i + 1], item2[j + 1]) + MinCostFrom(i + 1, j + 1)}
           ELSE {}))

\* C3: the returned script leads from (0,0) to (lenA, lenB) and no script of
\* Horizontal, Vertical and permitted Diagonal steps between these corners has
\* a smaller total cost.
C3_MinimumCost ==
    apc = "done" =>
        /\ LeadsToCorner(result)
        /\ ScriptCost(result, 1) <= MinCostFrom(0, 0)

\* C3 witness: a returned script that mixes Diagonal with other steps, for
\* lists that hold a forbidden pair, where the least cost is below the cost
\* of deleting and inserting everything.
C3_Witness ==
    /\ apc = "done"
    /\ \E p, q \in 1..Len(result) : result[p] = "Diagonal" /\ result[q] # "Diagonal"
    /\ \E i \in 1..Len(item1), j \in 1..Len(item2) : Forbidden(item1[i], item2[j])
    /\ MinCostFrom(0, 0) < step_cost(kind) * (Len(item1) + Len(item2))

\* C4: the cost of the returned script never exceeds the cost of deleting
\* every element of A and inserting every element of B.
C4_NaiveBound ==
    apc = "done" =>
        ScriptCost(result, 1) <= step_cost(kind) * (Len(item1) + Len(item2))

\* C4 witness: a returned script for two lists of the longest length that pairs
\* unequal elements and is cheaper than the naive alignment.
C4_Witness ==
    /\ apc = "done"
    /\ Len(item1) = MaxLen /\ Len(item2) = MaxLen
    /\ ScriptCost(result, 1) > 0
    /\ ScriptCost(result, 1) < step_cost(kind) * (Len(item1) + Len(item2))

\* C5: no Diagonal step of a returned script pairs elements whose pair_cost is
\* 2 * step_cost or more; when every pair saturates the script has only
\* Horizontal and Vertical steps.
C5_NoForbiddenDiagonal ==
    apc = "done" =>
        /\ \A p \in 1..Len(result) :
              result[p] = "Diagonal" => PairCostAt(result, p) < 2 * step_cost(kind)
        /\ (\A i \in 1..Len(item1), j \in 1..Len(item2) : Forbidden(item1[i], item2[j]))
              => \A p \in 1..Len(result) : result[p] \in {"Horizontal", "Vertical"}

\* C5 witness: a script returned for two non-empty lists all of whose pairs
\* saturate.
C5_Witness ==
    /\ apc = "done"
    /\ Len(item1) = MaxLen /\ Len(item2) >= 1
    /\ \A i \in 1..Len(item1), j \in 1..Len(item2) : Forbidden(item1[i], item2[j])
    /\ Len(result) = Len(item1) + Len(item2)

CountOf(path, d) == Cardinality({p \in 1..Len(path) : path[p] = d})

\* item2 is item1 with one element inserted.
OneInserted ==
    /\ Len(item2) = Len(item1) + 1
    /\ \E k \in 1..Len(item2) : item2 = InsertAt(item1, k, item2[k])

ParamA == [name |-> 1, val |-> 1]
ParamB == [name |-> 2, val |-> 1]
ParamC == [name |-> 3, val |-> 1]

\* C10: aligning (a: i32, b: i32) with (a: i32, c: i32, b: i32) returns
\* [Diagonal, Vertical, Diagonal]; whenever B is A with one element inserted,
\* the script has lenA Diagonal steps, one Vertical step and no Horizontal step.
C10_OneInsertion ==
    apc = "done" =>
        /\ (kind = "Parameter" /\ item1 = <<ParamA, ParamB>>
                /\ item2 = <<ParamA, ParamC, ParamB>>)
              => result = <<"Diagonal", "Vertical", "Diagonal">>
        /\ OneInserted =>
              /\ CountOf(result, "Diagonal") = Len(item1)
              /\ CountOf(result, "Vertical") = 1
              /\ CountOf(result, "Horizontal") = 0

\* C10 witness: the script returned for (a: i32, b: i32) and
\* (a: i32, c: i32, b: i32).
C10_Witness ==
    /\ apc = "done"
    /\ kind = "Parameter"
    /\ item1 = <<ParamA, ParamB>>
    /\ item2 = <<ParamA, ParamC, ParamB>>
    /\ Len(result) = Len(item2)

\* ---------------------------------------------------------- merge-join
\* slice::Iter::next at position pos (the index of the next element).
IterNext(list, pos) == IF pos <= Len(list) THEN Some(list[pos]) ELSE None

\* struct Namespace: the parent (None for the outermost namespace) and the name.
Namespace_new(parent, name) == [parent |-> parent, name |-> name]

\* Namespace::len.
RECURSIVE Namespace_len(_)
Namespace_len(ns) == IF ns.parent # None THEN Namespace_len(ns.parent[1]) + 1 ELSE 1

\* Namespace::up.
RECURSIVE Namespace_up(_, _)
Namespace_up(ns, len) ==
    IF len = 0 THEN ns
    ELSE IF ns.parent # None THEN Namespace_up(ns.parent[1], len - 1) ELSE ns

\* Namespace::_cmp, on two namespaces of the same length: the parents first,
\* then the names; Equal as soon as one of the two has no parent.
RECURSIVE Namespace__cmp(_, _)
Namespace__cmp(a, b) ==
    IF a.parent # None /\ b.parent # None
    THEN LET o == Namespace__cmp(a.parent[1], b.parent[1])
         IN  IF o = "Equal" THEN CmpNat(a.name, b.name) ELSE o
    ELSE "Equal"

\* Namespace::cmp: the longer namespace is cut to the length of the shorter
\* one; the shorter one is Less when the cut namespaces are Equal.
Namespace_cmp(a, b) ==
    LET len_a == Namespace_len(a)
        len_b == Namespace_len(b)
    IN  CASE len_a = len_b -> Namespace__cmp(a, b)
          [] len_a < len_b ->
                LET o == Namespace__cmp(a, Namespace_up(b, len_b - len_a))
                IN  IF o = "Equal" THEN "Less" ELSE o
          [] len_a > len_b ->
                LET o == Namespace__cmp(Namespace_up(a, len_a - len_b), b)
                IN  IF o = "Equal" THEN "Greater" ELSE o

\* cmp_ns_and_name, on two Option<Rc<Namespace>> and two names.
cmp_ns_and_name(ns1, name1, ns2, name2) ==
    CASE ns1 # None /\ ns2 # None ->
            LET o == Namespace_cmp(ns1[1], ns2[1])
            IN  IF o = "Equal" THEN CmpNat(name1, name2) ELSE o
      [] ns1 # None /\ ns2 = None -> "Greater"
      [] ns1 = None /\ ns2 # None -> "Less"
      [] OTHER -> CmpNat(name1, name2)

\* The TypeKind of a type: a struct has members, an enumeration enumerators.
TypeKind(x) == IF "members" \in DOMAIN x THEN "Struct" ELSE "Enumeration"

\* TypeKind::discriminant_value.
TypeKind_discriminant_value(k) == IF k = "Struct" THEN 2 ELSE 4

\* The namespace field of a type; a type written without the field is in no
\* namespace.
Type_namespace(x) == IF "namespace" \in DOMAIN x THEN x.namespace ELSE None

\* Mutant of Type_cmp_id: the namespaces and names are compared whatever the
\* kinds.
Type_cmp_id_any_kind(type_a, type_b) ==
    cmp_ns_and_name(Type_namespace(type_a), type_a.name,
                    Type_namespace(type_b), type_b.name)

\* Type::cmp_id: StructType::cmp_id or EnumerationType::cmp_id (both are
\* cmp_ns_and_name) for two types of one kind, the order of the discriminant
\* values for two kinds.
Type_cmp_id(type_a, type_b) ==
    IF TypeKind(type_a) = TypeKind(type_b)
    THEN cmp_ns_and_name(Type_namespace(type_a), type_a.name,
                         Type_namespace(type_b), type_b.name)
    ELSE CmpNat(TypeKind_discriminant_value(TypeKind(type_a)),
                TypeKind_discriminant_value(TypeKind(type_b)))

\* Mutant of item_cmp: the arguments handed to cmp_id are swapped.
item_cmp_swapped(left, right) == cmp_id(right, left)

\* The comparator the MergeIterator is built with: the cmp_id of the entities
\* merged, Type::cmp_id for types.
item_cmp(left, right) ==
    IF "declaration" \in DOMAIN left THEN Type_cmp_id(left, right) ELSE cmp_id(left, right)

\* MergeIterator::new: fetch the first item of each side.
MergeIteratorNew(la, lb) ==
    [ pos_left |-> 2, pos_right |-> 2,
      item_left |-> IterNext(la, 1), item_right |-> IterNext(lb, 1) ]

AdvanceLeft(it, la) ==
    [it EXCEPT !.item_left = IterNext(la, it.pos_left), !.pos_left = @ + 1]

AdvanceRight(it, lb) ==
    [it EXCEPT !.item_right = IterNext(lb, it.pos_right), !.pos_right = @ + 1]

\* MergeIterator::next: the iterator afterwards and the result (None at the end).
MergeIteratorNext(it, la, lb) ==
    IF it.item_left # None /\ it.item_right # None THEN
        LET left == it.item_left[1]
            right == it.item_right[1]
            ord == item_cmp(left, right)
        IN  IF ord = "Equal" THEN
                [ it |-> AdvanceRight(AdvanceLeft(it, la), lb),
                  res |-> Some([kind |-> "Both", left |-> left, right |-> right]) ]
            ELSE IF ord = "Less" THEN
                [ it |-> AdvanceLeft(it, la),
                  res |-> Some([kind |-> "Left", left |-> left]) ]
            ELSE
                [ it |-> AdvanceRight(it, lb),
                  res |-> Some([kind |-> "Right", right |-> right]) ]
    ELSE IF it.item_left # None THEN
        [ it |-> AdvanceLeft(it, la),
          res |-> Some([kind |-> "Left", left |-> it.item_left[1]]) ]
    ELSE IF it.item_right # None THEN
        [ it |-> AdvanceRight(it, lb),
          res |-> Some([kind |-> "Right", right |-> it.item_right[1]]) ]
    ELSE [ it |-> it, res |-> None ]

NoIter == [pos_left |-> 0, pos_right |-> 0, item_left |-> None, item_right |-> None]

InitMerge ==
    /\ mpc = "sort"
    /\ in_a \in {S \in SUBSET Functions : Cardinality(S) <= MaxLen}
    /\ in_b \in {S \in SUBSET Functions : Cardinality(S) <= MaxLen}
    /\ list_a = <<>>
    /\ list_b = <<>>
    /\ iter = NoIter
    /\ merged = <<>>
    /\ AlignIdle
    /\ EngineIdle

\* sort_list: list_a.sort_by(cmp_id_for_sort); list_b.sort_by(cmp_id_for_sort).
SortLists ==
    /\ mpc = "sort"
    /\ list_a' = SortedBy(in_a)
    /\ list_b' = SortedBy(in_b)
    /\ mpc' = "new"
    /\ UNCHANGED <<in_a, in_b, iter, merged, alignVars, engineVars>>

\* sort_list: MergeIterator::new(list_a.iter(), list_b.iter(), cmp_id).
MergeNew ==
    /\ mpc = "new"
    /\ iter' = MergeIteratorNew(list_a, list_b)
    /\ mpc' = "collect"
    /\ UNCHANGED <<in_a, in_b, list_a, list_b, merged, alignVars, engineVars>>

\* One call of MergeIterator::next made by collect().
MergeNext ==
    /\ mpc = "collect"
    /\ LET r == MergeIteratorNext(iter, list_a, list_b)
       IN  /\ iter' = r.it
           /\ IF r.res = None
                 THEN mpc' = "done" /\ merged' = merged
                 ELSE mpc' = mpc /\ merged' = Append(merged, r.res[1])
    /\ UNCHANGED <<in_a, in_b, list_a, list_b, alignVars, engineVars>>

NextMerge == SortLists \/ MergeNew \/ MergeNext

SpecMerge == InitMerge /\ [][NextMerge]_vars

\* ------------------------------------------------- merge-join: claims
\* The identity key of a function is its name; the key of a result is the key
\* of the element(s) it holds.
ResultKey(r) == IF r.kind = "Right" THEN r.right.name ELSE r.left.name

HasLeft(r) == r.kind \in {"Left", "Both"}
HasRight(r) == r.kind \in {"Right", "Both"}

ResultsWithLeft(x) == {i \in 1..Len(merged) : HasLeft(merged[i]) /\ merged[i].left = x}
ResultsWithRight(x) == {i \in 1..Len(merged) : HasRight(merged[i]) /\ merged[i].right = x}

UniqueIds(l) == \A i, j \in 1..Len(l) : i # j => l[i].name # l[j].name

KeyIn(k, l) == \E i \in 1..Len(l) : l[i].name = k

BothsWithKey(k) == {i \in 1..Len(merged) : merged[i].kind = "Both" /\ ResultKey(merged[i]) = k}

\* Every element of both inputs is in exactly one result and the results are
\* in non-decreasing key order.
MergePartition ==
    /\ \A i \in 1..Len(list_a) : Cardinality(ResultsWithLeft(list_a[i])) = 1
    /\ \A i \in 1..Len(list_b) : Cardinality(ResultsWithRight(list_b[i])) = 1
    /\ Len(merged) = Len(list_a) + Len(list_b)
                        - Cardinality({i \in 1..Len(merged) : merged[i].kind = "Both"})
    /\ \A i, j \in 1..Len(merged) : i < j => ResultKey(merged[i]) <= ResultKey(merged[j])

\* C1: for inputs sorted by the identity comparator with unique keys, the
\* merge-join yields every element of A and of B in exactly one result (Left,
\* Right or Both) and the results come out in non-decreasing key order.
C1_MergeJoinPartition ==
    (mpc = "done" /\ UniqueIds(list_a) /\ UniqueIds(list_b)) => MergePartition

\* C1 witness: a finished merge of two non-empty unique-key lists that
\* produced a Right result before a Both result.
C1_Witness ==
    /\ mpc = "done" /\ UniqueIds(list_a) /\ UniqueIds(list_b)
    /\ \E i, j \in 1..Len(merged) :
          i < j /\ merged[i].kind = "Right" /\ merged[j].kind = "Both"

\* Both results pair elements with equal identity keys.
BothOnlyForEqual ==
    \A i \in 1..Len(merged) :
        merged[i].kind = "Both" => merged[i].left.name = merged[i].right.name

\* An element comes out alone exactly when the other side holds no equal key,
\* and no key has more than one Both result.
BothExactlyForEqual ==
    /\ BothOnlyForEqual
    /\ \A i \in 1..Len(merged) :
          /\ merged[i].kind = "Left" => ~KeyIn(merged[i].left.name, list_b)
          /\ merged[i].kind = "Right" => ~KeyIn(merged[i].right.name, list_a)
    /\ \A k \in Names : Cardinality(BothsWithKey(k)) <= 1

\* C2 as stated: with sorted inputs, also when sort_list sorts with
\* cmp_id_for_sort and merges with cmp_id, Both is emitted exactly for the
\* pairs with equal identity keys and no key has more than one Both result.
C2_Original == mpc = "done" => BothExactlyForEqual

\* C2 amended: every Both pairs elements with equal identity keys; when the
\* identity keys are unique on each side, an element comes out Left (Right)
\* exactly when the other side holds no equal key and no key has more than
\* one Both result.
C2_BothExactlyForEqual ==
    mpc = "done" =>
        /\ BothOnlyForEqual
        /\ (UniqueIds(list_a) /\ UniqueIds(list_b)) => BothExactlyForEqual

\* C2 witness: a finished merge of unique-key lists, sorted by cmp_id_for_sort,
\* where a function of A meets an overload of the same name in B.
C2_Witness ==
    /\ mpc = "done" /\ UniqueIds(list_a) /\ UniqueIds(list_b)
    /\ Len(list_a) = MaxLen
    /\ \E i \in 1..Len(merged) :
          merged[i].kind = "Both" /\ merged[i].left # merged[i].right
    /\ \E i \in 1..Len(merged) : merged[i].kind = "Left"

\* ------------------------------------------------------------- entities
\* Option<u64> of EnumerationType::byte_size.
ByteSizes == {None, Some(4)}

\* struct EnumerationType: name, declaration, byte size and enumerators
\* (struct Enumerator: name and value, the Items of the aligner).
EnumerationTypes ==
    [name : Names, declaration : BOOLEAN, byte_size : ByteSizes,
     enumerators : SeqsUpTo(Items, MaxEnumerators)]

\* String::from_utf8_lossy(name), names being numbered in the model.
NameText(n) == ToString(n)

\* Namespace::print: the parents first, then the name and `::`.
RECURSIVE Namespace_print(_)
Namespace_print(ns) ==
    (IF ns.parent # None THEN Namespace_print(ns.parent[1]) ELSE <<>>)
        \o <<NameText(ns.name), "::">>

\* EnumerationType::print_ref.
EnumerationType_print_ref(x) ==
    <<"enum ">>
        \o (IF Type_namespace(x) # None THEN Namespace_print(Type_namespace(x)[1]) ELSE <<>>)
        \o <<NameText(x.name)>>

\* EnumerationType::print_declaration.
EnumerationType_print_declaration(x) ==
    IF x.declaration THEN <<"declaration: yes">> ELSE <<>>

\* EnumerationType::print_byte_size.
EnumerationType_print_byte_size(x) ==
    IF x.byte_size # None THEN <<"size: ", ToString(x.byte_size[1])>> ELSE <<>>

\* EnumerationType::print_enumerators_label.
EnumerationType_print_enumerators_label(x) ==
    IF x.enumerators # <<>> THEN <<"enumerators:">> ELSE <<>>

\* Enumerator::print_name_value.
Enumerator_print_name_value(e) == <<NameText(e.name), "(", ToString(e.val), ")">>

\* The return of the closure of the innermost scope call.
Return == Call("return")

LineCall(side, body) == [Call("PrintState::line") EXCEPT !.side = side, !.a = body]
LineOptionCall(side, buf) == [Call("PrintState::line_option") EXCEPT !.side = side, !.a = buf]
PrintIndentCall(side) == [Call("PrintState::indent") EXCEPT !.side = side]
PrefixCall(side, prefix) == [Call("PrintState::prefix") EXCEPT !.side = side, !.prefix = prefix]
DiffLineCall(a, b) == [Call("DiffState::line") EXCEPT !.a = a, !.b = b]
ListCall(a, b) == [Call("DiffState::list") EXCEPT !.a = a, !.b = b]
IgnoreDiffCall(flag) == [Call("DiffState::ignore_diff") EXCEPT !.flag = flag]

\* Enumerator::print.
Enumerator_print(e, side) == <<LineCall(side, Enumerator_print_name_value(e))>>

\* Enumerator::diff.
Enumerator_diff(a, b) ==
    <<DiffLineCall(Enumerator_print_name_value(a), Enumerator_print_name_value(b))>>

\* EnumerationType::print_enumerators_entries.
RECURSIVE EnumerationType_print_enumerators_entries(_, _, _)
EnumerationType_print_enumerators_entries(x, side, i) ==
    IF i > Len(x.enumerators) THEN <<>>
    ELSE Enumerator_print(x.enumerators[i], side)
            \o EnumerationType_print_enumerators_entries(x, side, i + 1)

\* EnumerationType::print_enumerators.
EnumerationType_print_enumerators(x, side) ==
    <<LineOptionCall(side, EnumerationType_print_enumerators_label(x)),
      PrintIndentCall(side)>>
        \o EnumerationType_print_enumerators_entries(x, side, 1)
        \o <<Return>>

\* EnumerationType::print.
EnumerationType_print(x, side) ==
    <<LineCall(side, EnumerationType_print_ref(x)),
      PrintIndentCall(side),
      LineOptionCall(side, EnumerationType_print_declaration(x)),
      LineOptionCall(side, EnumerationType_print_byte_size(x))>>
        \o EnumerationType_print_enumerators(x, side)
        \o <<Return>>

\* EnumerationType::diff_enumerators_entries.
EnumerationType_diff_enumerators_entries(a, b) ==
    <<ListCall(a.enumerators, b.enumerators)>>

\* EnumerationType::diff_enumerators.
EnumerationType_diff_enumerators(a, b) ==
    <<DiffLineCall(EnumerationType_print_enumerators_label(a),
                   EnumerationType_print_enumerators_label(b)),
      Call("DiffState::indent")>>
        \o EnumerationType_diff_enumerators_entries(a, b)
        \o <<Return>>

\* EnumerationType::diff.
EnumerationType_diff(a, b) ==
    <<DiffLineCall(EnumerationType_print_ref(a), EnumerationType_print_ref(b)),
      Call("DiffState::indent"),
      DiffLineCall(EnumerationType_print_declaration(a),
                   EnumerationType_print_declaration(b)),
      DiffLineCall(EnumerationType_print_byte_size(a),
                   EnumerationType_print_byte_size(b))>>
        \o EnumerationType_diff_enumerators(a, b)
        \o <<Return>>

\* DiffState::list after shortest_path: the walk of the path from position p,
\* pos_a and pos_b being the elements iter_a and iter_b have handed out.
RECURSIVE DiffState_list_walk(_, _, _, _, _, _)
DiffState_list_walk(path, la, lb, p, pos_a, pos_b) ==
    IF p > Len(path) \/ path[p] = "None" THEN <<>>
    ELSE LET next_a == IterNext(la, pos_a + 1)
             next_b == IterNext(lb, pos_b + 1)
         IN  CASE path[p] = "Diagonal" ->
                    IF next_a # None /\ next_b # None
                    THEN Enumerator_diff(next_a[1], next_b[1])
                            \o DiffState_list_walk(path, la, lb, p + 1, pos_a + 1, pos_b + 1)
                    ELSE DiffState_list_walk(path, la, lb, p + 1,
                                             Min(pos_a + 1, Len(la)),
                                             Min(pos_b + 1, Len(lb)))
               [] path[p] = "Horizontal" ->
                    IF next_a # None
                    THEN <<PrefixCall("a", "Less")>> \o Enumerator_print(next_a[1], "a")
                            \o <<Return>>
                            \o DiffState_list_walk(path, la, lb, p + 1, pos_a + 1, pos_b)
                    ELSE DiffState_list_walk(path, la, lb, p + 1, pos_a, pos_b)
               [] path[p] = "Vertical" ->
                    IF next_b # None
                    THEN <<PrefixCall("b", "Greater")>> \o Enumerator_print(next_b[1], "b")
                            \o <<Return>>
                            \o DiffState_list_walk(path, la, lb, p + 1, pos_a, pos_b + 1)
                    ELSE DiffState_list_walk(path, la, lb, p + 1, pos_a, pos_b)

\* The script of n steps in direction d.
Steps(n, d) == [p \in 1..n |-> d]

\* C16: with A empty the aligner returns lenB Vertical steps, with B empty lenA
\* Horizontal steps, with both empty the empty script.
C16_EmptySide ==
    /\ (item1 = <<>> \/ item2 = <<>>) => apc # "panic"
    /\ apc = "done" =>
          /\ item1 = <<>> => result = Steps(Len(item2), "Vertical")
          /\ item2 = <<>> => result = Steps(Len(item1), "Horizontal")
          /\ (item1 = <<>> /\ item2 = <<>>) => result = <<>>

\* C16 witness: the script returned for an empty A and a B of MaxLen elements.
C16_Witness ==
    apc = "done" /\ item1 = <<>> /\ Len(item2) = MaxLen /\ Len(result) = MaxLen

\* pair_cost is 0 for every element of A with every element of B.
AllPairsFree ==
    \A i \in 1..Len(item1), j \in 1..Len(item2) :
        diff_cost(kind, item1[i], item2[j]) = 0

\* Every step is Diagonal and every element of A and of B is paired.
PureDiagonal ==
    /\ \A p \in 1..Len(result) : result[p] = "Diagonal"
    /\ Len(result) = Len(item1)
    /\ Len(result) = Len(item2)

\* C17 as stated: with pair_cost 0 for every pair the returned script is a
\* pure diagonal walk.
C17_Original == (apc = "done" /\ AllPairsFree) => PureDiagonal

\* C17: with pair_cost 0 for every pair and as many elements in A as in B the
\* returned script is a pure diagonal walk.
C17_PureDiagonal ==
    (apc = "done" /\ AllPairsFree /\ Len(item1) = Len(item2)) => PureDiagonal

\* C17 witness: two lists of MaxLen elements, every pair of cost 0.
C17_Witness ==
    /\ apc = "done" /\ AllPairsFree
    /\ Len(item1) = MaxLen /\ Len(item2) = MaxLen /\ Len(result) = MaxLen

\* ------------------------------------------------------------- structs
\* format_bit: bytes, and the odd bits after a dot.
format_bit(val) ==
    IF val % 8 = 0 THEN <<ToString(val \div 8)>>
    ELSE <<ToString(val \div 8), ".", ToString(val % 8)>>

\* Type::print_ref_from_offset of a member's type, types being numbered.
TypeText(ty) == ToString(ty)

\* Member::print_name: the text of the line.
Member_print_name(x) ==
    format_bit(x.bit_offset)
        \o (IF x.bit_size # None
            THEN <<"[">> \o format_bit(x.bit_size[1]) \o <<"]">>
            ELSE <<"[??]">>)
        \o <<"\t", NameText(x.name), ": ", TypeText(x.val)>>

\* Member::print_name: the end_bit_offset it leaves.
Member_end_bit_offset(x) ==
    IF x.bit_size # None THEN Some(x.bit_offset + x.bit_size[1]) ELSE None

\* Member::padding.
Member_padding(x, end_bit_offset) ==
    IF end_bit_offset # None /\ x.bit_offset > end_bit_offset[1]
    THEN Some(<<end_bit_offset[1], x.bit_offset - end_bit_offset[1]>>)
    ELSE None

\* StructType::padding.
StructType_padding(x, bit_offset) ==
    IF bit_offset # None /\ x.byte_size # None /\ bit_offset[1] < x.byte_size[1] * 8
    THEN Some(<<bit_offset[1], x.byte_size[1] * 8 - bit_offset[1]>>)
    ELSE None

\* Member::print_padding.
Member_print_padding(padding) ==
    IF padding # None
    THEN format_bit(padding[1][1]) \o <<"[">> \o format_bit(padding[1][2])
            \o <<"]", "\t<padding>">>
    ELSE <<>>

\* StructType::print_ref.
StructType_print_ref(x) == <<"struct ", NameText(x.name)>>

\* StructType::print_declaration.
StructType_print_declaration(x) ==
    IF x.declaration THEN <<"declaration: yes">> ELSE <<>>

\* StructType::print_byte_size.
StructType_print_byte_size(x) ==
    IF x.byte_size # None THEN <<"size: ", ToString(x.byte_size[1])>> ELSE <<>>

\* StructType::print_members_label.
StructType_print_members_label(x) ==
    IF x.members # <<>> THEN <<"members:">> ELSE <<>>

\* Member::print of a member whose type is not inline: the line, and an indent
\* around Type::print_members_entries(None), which writes nothing.
Member_print(x, side) ==
    <<LineCall(side, Member_print_name(x)), PrintIndentCall(side), Return>>

\* Member::diff of two members whose types are not inline: the paired line, and
\* an indent around Type::diff_members_entries(None, None), whose prefix_diff
\* closure writes nothing.
Member_diff(a, b) ==
    <<DiffLineCall(Member_print_name(a), Member_print_name(b)),
      Call("DiffState::indent"), Call("DiffState::prefix_diff"), Return, Return>>

\* StructType::print_members_entries from member i on, bit_offset being the end
\* of the member before.
RECURSIVE StructType_print_members_entries(_, _, _, _)
StructType_print_members_entries(x, side, i, bit_offset) ==
    IF i > Len(x.members)
    THEN <<LineOptionCall(side, Member_print_padding(StructType_padding(x, bit_offset)))>>
    ELSE <<LineOptionCall(side,
               Member_print_padding(Member_padding(x.members[i], bit_offset)))>>
            \o Member_print(x.members[i], side)
            \o StructType_print_members_entries(x, side, i + 1,
                                                Member_end_bit_offset(x.members[i]))

\* StructType::print_members.
StructType_print_members(x, side) ==
    <<LineOptionCall(side, StructType_print_members_label(x)), PrintIndentCall(side)>>
        \o StructType_print_members_entries(x, side, 1, Some(0))
        \o <<Return>>

\* StructType::print.
StructType_print(x, side) ==
    <<LineCall(side, StructType_print_ref(x)),
      PrintIndentCall(side),
      LineOptionCall(side, StructType_print_declaration(x)),
      LineOptionCall(side, StructType_print_byte_size(x))>>
        \o StructType_print_members(x, side)
        \o <<Return>>

\* StructType::diff_members_entries after shortest_path: DiffState::list's walk
\* of the path from position p with the closures it was given, then the line of
\* the structs' own padding.  pos_a and pos_b are the members iter_a and iter_b
\* have handed out, off_a and off_b the bit_offset_a and bit_offset_b.
RECURSIVE StructType_diff_members_entries_walk(_, _, _, _, _, _, _, _)
StructType_diff_members_entries_walk(path, a, b, p, pos_a, pos_b, off_a, off_b) ==
    IF p > Len(path) \/ path[p] = "None"
    THEN <<DiffLineCall(Member_print_padding(StructType_padding(a, off_a)),
                        Member_print_padding(StructType_padding(b, off_b)))>>
    ELSE LET next_a == IterNext(a.members, pos_a + 1)
             next_b == IterNext(b.members, pos_b + 1)
         IN  CASE path[p] = "Diagonal" ->
                    IF next_a # None /\ next_b # None
                    THEN <<DiffLineCall(
                               Member_print_padding(Member_padding(next_a[1], off_a)),
                               Member_print_padding(Member_padding(next_b[1], off_b)))>>
                            \o Member_diff(next_a[1], next_b[1])
                            \o StructType_diff_members_entries_walk(
                                   path, a, b, p + 1, pos_a + 1, pos_b + 1,
                                   Member_end_bit_offset(next_a[1]),
                                   Member_end_bit_offset(next_b[1]))
                    ELSE StructType_diff_members_entries_walk(
                             path, a, b, p + 1,
                             Min(pos_a + 1, Len(a.members)),
                             Min(pos_b + 1, Len(b.members)), off_a, off_b)
               [] path[p] = "Horizontal" ->
                    IF next_a # None
                    THEN <<PrefixCall("a", "Less")>> \o Member_print(next_a[1], "a")
                            \o <<Return>>
                            \o StructType_diff_members_entries_walk(
                                   path, a, b, p + 1, pos_a + 1, pos_b,
                                   Member_end_bit_offset(next_a[1]), off_b)
                    ELSE StructType_diff_members_entries_walk(
                             path, a, b, p + 1, pos_a, pos_b, off_a, off_b)
               [] path[p] = "Vertical" ->
                    IF next_b # None
                    THEN <<PrefixCall("b", "Greater")>> \o Member_print(next_b[1], "b")
                            \o <<Return>>
                            \o StructType_diff_members_entries_walk(
                                   path, a, b, p + 1, pos_a, pos_b + 1,
                                   off_a, Member_end_bit_offset(next_b[1]))
                    ELSE StructType_diff_members_entries_walk(
                             path, a, b, p + 1, pos_a, pos_b, off_a, off_b)

\* StructType::diff_members_entries: DiffState::list on the members.
StructType_diff_members_entries(a, b) ==
    <<[Call("DiffState::list") EXCEPT !.kind = "Member", !.a = a, !.b = b]>>

\* StructType::diff_members.
StructType_diff_members(a, b) ==
    <<DiffLineCall(StructType_print_members_label(a), StructType_print_members_label(b)),
      Call("DiffState::indent")>>
        \o StructType_diff_members_entries(a, b)
        \o <<Return>>

\* StructType::diff.
StructType_diff(a, b) ==
    <<DiffLineCall(StructType_print_ref(a), StructType_print_ref(b)),
      Call("DiffState::indent"),
      DiffLineCall(StructType_print_declaration(a), StructType_print_declaration(b)),
      DiffLineCall(StructType_print_byte_size(a), StructType_print_byte_size(b))>>
        \o StructType_diff_members(a, b)
        \o <<Return>>

\* ------------------------------------------------- inlined subroutines
\* InlinedSubroutine::print_name: the size, a tab and the function inlined,
\* functions being numbered.
InlinedSubroutine_print_name(x) ==
    (IF x.size # None THEN <<"[", ToString(x.size[1]), "]">> ELSE <<"[??]">>)
        \o <<"\t", NameText(x.abstract_origin)>>

RECURSIVE InlinedSubroutine_print(_, _, _, _)
RECURSIVE InlinedSubroutine_print_each(_, _, _, _, _)
\* InlinedSubroutine::print: the line, and while flags.inline_depth is above
\* depth the subroutines inlined into this one, a level further in.
InlinedSubroutine_print(x, side, depth, flags) ==
    <<LineCall(side, InlinedSubroutine_print_name(x))>>
        \o (IF flags.inline_depth > depth
            THEN <<PrintIndentCall(side)>>
                    \o InlinedSubroutine_print_each(x.inlined_subroutines, side,
                                                    depth + 1, flags, 1)
                    \o <<Return>>
            ELSE <<>>)

\* `for subroutine in ..` from the i-th on, each printed at the given depth.
InlinedSubroutine_print_each(list, side, depth, flags, i) ==
    IF i > Len(list) THEN <<>>
    ELSE InlinedSubroutine_print(list[i], side, depth, flags)
            \o InlinedSubroutine_print_each(list, side, depth, flags, i + 1)

\* Subprogram::print_inlined_subroutines_label.
Subprogram_print_inlined_subroutines_label(x) ==
    IF x.inlined_subroutines # <<>> THEN <<"inlined subroutines:">> ELSE <<>>

\* InlinedSubroutine::diff_inlined_subroutines: DiffState::list of the two
\* lists inside an indent, its closures being given depth + 1.
InlinedSubroutine_diff_inlined_subroutines(a, b, depth) ==
    <<Call("DiffState::indent"),
      [Call("DiffState::list") EXCEPT
          !.kind = "InlinedSubroutine", !.depth = depth, !.a = a, !.b = b],
      Return>>

\* InlinedSubroutine::diff: the paired line, and while flags.inline_depth is
\* above depth the subroutines inlined into the two, handed on with depth 1.
InlinedSubroutine_diff(a, b, depth, flags) ==
    <<DiffLineCall(InlinedSubroutine_print_name(a), InlinedSubroutine_print_name(b))>>
        \o (IF flags.inline_depth > depth
            THEN InlinedSubroutine_diff_inlined_subroutines(
                     a.inlined_subroutines, b.inlined_subroutines, 1)
            ELSE <<>>)

\* DiffState::list after shortest_path for inlined subroutines: the walk of the
\* path from position p, with the two closures of diff_inlined_subroutines.
RECURSIVE InlinedSubroutine_list_walk(_, _, _, _, _, _, _, _)
InlinedSubroutine_list_walk(path, la, lb, p, pos_a, pos_b, depth, flags) ==
    IF p > Len(path) \/ path[p] = "None" THEN <<>>
    ELSE LET next_a == IterNext(la, pos_a + 1)
             next_b == IterNext(lb, pos_b + 1)
         IN  CASE path[p] = "Diagonal" ->
                    IF next_a # None /\ next_b # None
                    THEN InlinedSubroutine_diff(next_a[1], next_b[1], depth + 1, flags)
                            \o InlinedSubroutine_list_walk(path, la, lb, p + 1,
                                                           pos_a + 1, pos_b + 1, depth, flags)
                    ELSE InlinedSubroutine_list_walk(path, la, lb, p + 1,
                                                     Min(pos_a + 1, Len(la)),
                                                     Min(pos_b + 1, Len(lb)), depth, flags)
               [] path[p] = "Horizontal" ->
                    IF next_a # None
                    THEN <<PrefixCall("a", "Less")>>
                            \o InlinedSubroutine_print(next_a[1], "a", depth + 1, flags)
                            \o <<Return>>
                            \o InlinedSubroutine_list_walk(path, la, lb, p + 1,
                                                           pos_a + 1, pos_b, depth, flags)
                    ELSE InlinedSubroutine_list_walk(path, la, lb, p + 1,
                                                     pos_a, pos_b, depth, flags)
               [] path[p] = "Vertical" ->
                    IF next_b # None
                    THEN <<PrefixCall("b", "Greater")>>
                            \o InlinedSubroutine_print(next_b[1], "b", depth + 1, flags)
                            \o <<Return>>
                            \o InlinedSubroutine_list_walk(path, la, lb, p + 1,
                                                           pos_a, pos_b + 1, depth, flags)
                    ELSE InlinedSubroutine_list_walk(path, la, lb, p + 1,
                                                     pos_a, pos_b, depth, flags)

\* Subprogram::diff, the part on inlined subroutines: with flags.inline_depth
\* above zero the label and diff_inlined_subroutines with depth 1.
Subprogram_diff_inlined_subroutines(a, b, flags) ==
    IF flags.inline_depth > 0
    THEN <<DiffLineCall(Subprogram_print_inlined_subroutines_label(a),
                        Subprogram_print_inlined_subroutines_label(b))>>
            \o InlinedSubroutine_diff_inlined_subroutines(
                   a.inlined_subroutines, b.inlined_subroutines, 1)
    ELSE <<>>

\* ------------------------------------------------------------ sort_list
\* MergeIterator::new(..).collect().
RECURSIVE MergeCollect(_, _, _, _)
MergeCollect(it, la, lb, acc) ==
    LET r == MergeIteratorNext(it, la, lb)
    IN  IF r.res = None THEN acc
        ELSE MergeCollect(r.it, la, lb, Append(acc, r.res[1]))

\* MergeResult::cmp with the cmp_by of types under Sort::Name, Type::cmp_id.
MergeResult_cmp(x, y) ==
    Type_cmp_id(IF x.kind = "Right" THEN x.right ELSE x.left,
                IF y.kind = "Right" THEN y.right ELSE y.left)

\* list.sort_by(MergeResult::cmp), a stable sort: r goes behind the last
\* element of the sorted list l that is not greater than it.
InsertSorted(l, r) ==
    LET keep == {i \in 1..Len(l) : MergeResult_cmp(l[i], r) # "Greater"}
        k == IF keep = {} THEN 0 ELSE CHOOSE i \in keep : \A j \in keep : j <= i
    IN  SubSeq(l, 1, k) \o <<r>> \o SubSeq(l, k + 1, Len(l))

RECURSIVE SortResults(_, _, _)
SortResults(l, i, acc) ==
    IF i > Len(l) THEN acc ELSE SortResults(l, i + 1, InsertSorted(acc, l[i]))

\* Type::print, the match on the kind.
Type_print(x, side) ==
    IF TypeKind(x) = "Struct" THEN StructType_print(x, side)
    ELSE EnumerationType_print(x, side)

\* Type::print_ref, the match on the kind.
Type_print_ref(x) ==
    IF TypeKind(x) = "Struct" THEN StructType_print_ref(x) ELSE EnumerationType_print_ref(x)

\* Mutant of Type_diff: two types of different kinds are compared by their
\* print_ref lines.
Type_diff_unchecked(a, b) ==
    CASE TypeKind(a) = "Struct" /\ TypeKind(b) = "Struct" -> StructType_diff(a, b)
      [] TypeKind(a) = "Enumeration" /\ TypeKind(b) = "Enumeration" ->
            EnumerationType_diff(a, b)
      [] OTHER -> <<DiffLineCall(Type_print_ref(a), Type_print_ref(b))>>

\* Type::diff, the match on the two kinds; two different kinds are an error.
Type_diff(a, b) ==
    CASE TypeKind(a) = "Struct" /\ TypeKind(b) = "Struct" -> StructType_diff(a, b)
      [] TypeKind(a) = "Enumeration" /\ TypeKind(b) = "Enumeration" ->
            EnumerationType_diff(a, b)
      [] OTHER -> <<Call("Err")>>

\* DiffState::sort_list, the body of `for item in list` for one MergeResult.
SortListItem(item, opts) ==
    CASE item.kind = "Both" ->
            <<Call("DiffState::diff")>> \o Type_diff(item.left, item.right)
                \o <<Return>>
      [] item.kind = "Left" ->
            IF ~opts.ignore_deleted
            THEN <<PrefixCall("a", "Less")>> \o Type_print(item.left, "a")
                    \o <<Return>>
            ELSE <<>>
      [] item.kind = "Right" ->
            IF ~opts.ignore_added
            THEN <<PrefixCall("b", "Greater")>> \o Type_print(item.right, "b")
                    \o <<Return>>
            ELSE <<>>

RECURSIVE SortListItems(_, _, _)
SortListItems(list, i, opts) ==
    IF i > Len(list) THEN <<>>
    ELSE SortListItem(list[i], opts) \o SortListItems(list, i + 1, opts)

\* ------------------------------------------------------------- traversal
\* The cursors, the writers and the open scopes of the current state.
Machine == [state |-> state, out |-> out, bufs |-> bufs, frames |-> frames]

Becomes(m) ==
    /\ state' = m.state
    /\ out' = m.out
    /\ bufs' = m.bufs
    /\ frames' = m.frames

\* The sizes whose renderings are handed to the line calls when the calls are
\* any calls.
ScopeSizes == ByteSizes \cup {Some(8)}

\* What a closure of a line call renders for a size.
ScopeBuffer(sz) == EnumerationType_print_byte_size([byte_size |-> sz])

\* The calls any traversal is made of.
ScopeCalls ==
    {LineCall(s, ScopeBuffer(Some(4))) : s \in Sides}
        \cup {DiffLineCall(ScopeBuffer(x), ScopeBuffer(y)) : x \in ByteSizes, y \in ScopeSizes}
        \cup {PrefixCall("a", "Less"), PrefixCall("b", "Greater")}
        \cup {IgnoreDiffCall(flag) : flag \in BOOLEAN}
        \cup {Call("DiffState::diff"), Call("DiffState::indent"), Return}

RECURSIVE HeldLines(_, _)
\* The lines in the scratch buffers from the i-th on.
HeldLines(bs, i) == IF i > Len(bs) THEN 0 ELSE Len(bs[i]) + HeldLines(bs, i + 1)

\* A return needs an open scope call; the model stops opening scopes at
\* MaxDepth and writing lines at MaxLines.
CanCall(c) ==
    CASE c.op = "return" -> frames # <<>>
      [] c.op \in {"PrintState::line", "DiffState::line"} ->
            Len(out) + HeldLines(bufs, 1) < MaxLines
      [] OTHER -> Len(frames) < MaxDepth

\* The line calls, the prefix scopes of both cursors and DiffState::indent, and
\* the return.
PrefixScopeCalls ==
    {LineCall(s, ScopeBuffer(Some(4))) : s \in Sides}
        \cup {DiffLineCall(ScopeBuffer(Some(4)), ScopeBuffer(y)) : y \in {Some(4), Some(8)}}
        \cup {PrefixCall("a", "Less"), PrefixCall("b", "Greater")}
        \cup {Call("DiffState::prefix_equal"), Call("DiffState::prefix_diff"),
              Call("DiffState::indent"), Return}

\* The calls the traversal can make next: the next call of the entity being
\* written (epc = "run"), any call (epc = "any"), or any line call or prefix
\* scope (epc = "prefixes").
CallsNow ==
    IF epc = "any" THEN {c \in ScopeCalls : CanCall(c)}
    ELSE IF epc = "prefixes" THEN {c \in PrefixScopeCalls : CanCall(c)}
    ELSE IF epc = "run" /\ todo # <<>> THEN {Head(todo)}
    ELSE {}

\* The call c has been made.
Called(c) ==
    /\ todo' = IF epc \in {"any", "prefixes"} THEN todo ELSE Tail(todo)
    /\ last' = IF c.op = "return" THEN [c EXCEPT !.scope = Top(frames).kind] ELSE c
    /\ UNCHANGED <<epc, options, types_a, types_b, units_a, units_b,
                       functions_a, functions_b, html>>

\* diff_file hands the types of the two files to DiffState::sort_list, each
\* file holding at most one type here.
InitEntity ==
    /\ epc = "sort_list"
    /\ options \in [ignore_deleted : BOOLEAN, ignore_added : BOOLEAN]
    /\ types_a \in SeqsUpTo(EnumerationTypes, 1)
    /\ types_b \in SeqsUpTo(EnumerationTypes, 1)
    /\ units_a = <<>>
    /\ units_b = <<>>
    /\ functions_a = <<>>
    /\ functions_b = <<>>
    /\ html = HtmlPrinter_new([inline_depth |-> 0])
    /\ state = DiffState_new
    /\ out = <<>>
    /\ bufs = <<>>
    /\ frames = <<>>
    /\ todo = <<>>
    /\ last = Call("none")
    /\ MergeIdle
    /\ AlignIdle

\* A traversal about to make its first call on a new DiffState.
InitScope ==
    /\ epc = "any"
    /\ options = [ignore_deleted |-> FALSE, ignore_added |-> FALSE]
    /\ types_a = <<>>
    /\ types_b = <<>>
    /\ units_a = <<>>
    /\ units_b = <<>>
    /\ functions_a = <<>>
    /\ functions_b = <<>>
    /\ html = HtmlPrinter_new([inline_depth |-> 0])
    /\ state = DiffState_new
    /\ out = <<>>
    /\ bufs = <<>>
    /\ frames = <<>>
    /\ todo = <<>>
    /\ last = Call("none")
    /\ MergeIdle
    /\ AlignIdle

\* DiffState::sort_list up to its loop: the sorts (a list of one element is
\* sorted), the merge-join and the sort of its results; the loop's calls follow.
SortList ==
    /\ epc = "sort_list"
    /\ LET list == MergeCollect(MergeIteratorNew(types_a, types_b), types_a, types_b, <<>>)
       IN  todo' = SortListItems(SortResults(list, 1, <<>>), 1, options)
    /\ epc' = "run"
    /\ UNCHANGED <<options, types_a, types_b, units_a, units_b,
                       functions_a, functions_b, html, state, out, bufs, frames, last,
                   mergeVars, alignVars>>

\* PrintState::line on one side.
Line ==
    \E c \in CallsNow :
        /\ c.op = "PrintState::line"
        /\ Becomes(PrintState_line(Machine, c.side, c.a))
        /\ Called(c)
        /\ UNCHANGED <<mergeVars, alignVars>>

\* PrintState::line_option on one side.
LineOption ==
    \E c \in CallsNow :
        /\ c.op = "PrintState::line_option"
        /\ Becomes(PrintState_line_option(Machine, c.side, c.a))
        /\ Called(c)
        /\ UNCHANGED <<mergeVars, alignVars>>

\* DiffState::line and DiffState::line_option.
DiffLine ==
    \E c \in CallsNow :
        /\ c.op = "DiffState::line"
        /\ Becomes(DiffState_line(Machine, c.a, c.b))
        /\ Called(c)
        /\ UNCHANGED <<mergeVars, alignVars>>

\* PrintState::indent entered.
PrintIndent ==
    \E c \in CallsNow :
        /\ c.op = "PrintState::indent"
        /\ Becomes(PrintState_indent_begin(Machine, c.side))
        /\ Called(c)
        /\ UNCHANGED <<mergeVars, alignVars>>

\* DiffState::prefix_less or DiffState::prefix_greater entered.
Prefix ==
    \E c \in CallsNow :
        /\ c.op = "PrintState::prefix"
        /\ Becomes(PrintState_prefix_begin(Machine, c.side, c.prefix))
        /\ Called(c)
        /\ UNCHANGED <<mergeVars, alignVars>>

\* DiffState::diff entered.
Diff ==
    \E c \in CallsNow :
        /\ c.op = "DiffState::diff"
        /\ Becomes(DiffState_diff_begin(Machine))
        /\ Called(c)
        /\ UNCHANGED <<mergeVars, alignVars>>

\* DiffState::ignore_diff entered.
IgnoreDiff ==
    \E c \in CallsNow :
        /\ c.op = "DiffState::ignore_diff"
        /\ Becomes(DiffState_ignore_diff_begin(Machine, c.flag))
        /\ Called(c)
        /\ UNCHANGED <<mergeVars, alignVars>>

\* DiffState::indent entered.
Indent ==
    \E c \in CallsNow :
        /\ c.op = "DiffState::indent"
        /\ Becomes(DiffState_indent_begin(Machine))
        /\ Called(c)
        /\ UNCHANGED <<mergeVars, alignVars>>

\* The closure of the innermost scope call returns, and the call after it.
ScopeReturn ==
    \E c \in CallsNow :
        /\ c.op = "return"
        /\ Becomes(ScopeEnd(Machine))
        /\ Called(c)
        /\ UNCHANGED <<mergeVars, alignVars>>

\* What a call that returns Err can leave behind: a write of a line fails at
\* its start or after the marker, the flush of DiffState::diff after any of the
\* buffer's lines but the last, `Err(..)` and a closure that fails before it
\* writes leave nothing.
FailOutcomes(m, c) ==
    CASE c.op = "PrintState::line" -> {m, PrintState_line_failed(m, c.side)}
      [] c.op = "PrintState::line_option" ->
            {m} \cup (IF c.a = <<>> THEN {} ELSE {PrintState_line_failed(m, c.side)})
      [] c.op = "DiffState::line" -> {m} \cup DiffState_line_failed(m, c.a, c.b)
      [] c.op \in {"Err", "writeln"} -> {m}
      [] c.op = "return" ->
            IF Top(m.frames).kind = "DiffState::diff" /\ Flush(m.state.a.diff, m.state.b.diff)
            THEN {Write(DiffState_diff_fail(m), SubSeq(Top(m.bufs), 1, k)) :
                     k \in 0..(Len(Top(m.bufs)) - 1)}
            ELSE {}
      [] OTHER -> {}

\* The next call returns Err: every open scope call passes the Err on, and so
\* does the loop that makes the calls.
Fail ==
    /\ epc = "run"
    /\ todo # <<>>
    /\ apc = "idle"
    /\ \E m \in FailOutcomes(Machine, Head(todo)) : Becomes(Unwind(m))
    /\ todo' = <<>>
    /\ epc' = "failed"
    /\ last' = Call("Err")
    /\ UNCHANGED <<options, types_a, types_b, units_a, units_b,
                       functions_a, functions_b, html, mergeVars, alignVars>>

\* DiffState::prefix_diff entered.
PrefixDiff ==
    \E c \in CallsNow :
        /\ c.op = "DiffState::prefix_diff"
        /\ Becomes(DiffState_prefix_diff_begin(Machine))
        /\ Called(c)
        /\ UNCHANGED <<mergeVars, alignVars>>

\* DiffState::list calls shortest_path on the two lists: the enumerators it is
\* given, or the members of the two structs it is given.
List ==
    \E c \in CallsNow :
        /\ c.op = "DiffState::list"
        /\ apc = "idle"
        /\ apc' = "start"
        /\ kind' = c.kind
        /\ item1' = IF c.kind = "Member" THEN c.a.members ELSE c.a
        /\ item2' = IF c.kind = "Member" THEN c.b.members ELSE c.b
        /\ UNCHANGED <<node, heap, result, mergeVars, engineVars>>

\* DiffState::list has the path: shortest_path's locals are gone and the calls
\* of `for dir in path` follow.
ListWalk ==
    \E c \in CallsNow :
        /\ c.op = "DiffState::list"
        /\ apc = "done"
        /\ todo' = (CASE c.kind = "Member" ->
                            StructType_diff_members_entries_walk(
                                result, c.a, c.b, 1, 0, 0, Some(0), Some(0))
                      [] c.kind = "InlinedSubroutine" ->
                            InlinedSubroutine_list_walk(
                                result, item1, item2, 1, 0, 0, c.depth, options)
                      [] OTHER -> DiffState_list_walk(result, item1, item2, 1, 0, 0))
                        \o Tail(todo)
        /\ apc' = "idle"
        /\ kind' = "Parameter"
        /\ item1' = <<>>
        /\ item2' = <<>>
        /\ node' = <<>>
        /\ heap' = {}
        /\ result' = <<>>
        /\ UNCHANGED <<epc, options, types_a, types_b, units_a, units_b,
                       functions_a, functions_b, html, state, out, bufs,
                       frames, last, mergeVars>>

NextEntity ==
    \/ SortList
    \/ Line
    \/ LineOption
    \/ DiffLine
    \/ PrintIndent
    \/ Prefix
    \/ Diff
    \/ Indent
    \/ ScopeReturn
    \/ List
    \/ AlignStart
    \/ AlignStep
    \/ ListWalk

SpecEntity == InitEntity /\ [][NextEntity]_vars

NextScope ==
    \/ Line
    \/ DiffLine
    \/ Prefix
    \/ Diff
    \/ IgnoreDiff
    \/ Indent
    \/ ScopeReturn

SpecScope == InitScope /\ [][NextScope]_vars

\* The names of members: x, y and z.
MemberNames == 1..3

\* A member of type i32 (type 1), 32 bits wide, the i-th of its struct with no
\* padding before it.
MemberAt(n, i) ==
    [name |-> n, val |-> 1, bit_offset |-> 32 * (i - 1), bit_size |-> Some(32)]

\* The structs named 1 of up to MaxMembers such members named x or y, with
\* four bytes of padding at the end or none.
StructTypes ==
    {[name |-> 1, declaration |-> FALSE,
      byte_size |-> Some(4 * Len(ns) + pad),
      members |-> [i \in 1..Len(ns) |-> MemberAt(ns[i], i)]] :
        ns \in SeqsUpTo(1..2, MaxMembers), pad \in {0, 4}}

\* The struct x as another build of the source can hold it: as it is, with one
\* more member behind the others, without one of its members (the others stay
\* where they are), or with one member under another name.
Edits(x) ==
    {x}
        \cup {[x EXCEPT !.members = Append(@, MemberAt(n, Len(@) + 1)),
                        !.byte_size = Some(@[1] + 4)] : n \in MemberNames}
        \cup {[x EXCEPT !.members = SubSeq(@, 1, i - 1) \o SubSeq(@, i + 1, Len(@))] :
                 i \in 1..Len(x.members)}
        \cup {[x EXCEPT !.members[i].name = n] :
                 i \in 1..Len(x.members), n \in MemberNames}

\* diff_file hands DiffState::sort_list one struct of each file, the one of B
\* an edit of the one of A.
InitStruct ==
    /\ epc = "sort_list"
    /\ options = [ignore_deleted |-> FALSE, ignore_added |-> FALSE]
    /\ types_a \in {<<x>> : x \in StructTypes}
    /\ types_b \in {<<x>> : x \in Edits(types_a[1])}
    /\ units_a = <<>>
    /\ units_b = <<>>
    /\ functions_a = <<>>
    /\ functions_b = <<>>
    /\ html = HtmlPrinter_new([inline_depth |-> 0])
    /\ state = DiffState_new
    /\ out = <<>>
    /\ bufs = <<>>
    /\ frames = <<>>
    /\ todo = <<>>
    /\ last = Call("none")
    /\ MergeIdle
    /\ AlignIdle

NextStruct ==
    \/ SortList
    \/ Line
    \/ DiffLine
    \/ PrintIndent
    \/ Prefix
    \/ Diff
    \/ Indent
    \/ PrefixDiff
    \/ ScopeReturn
    \/ List
    \/ AlignStart
    \/ AlignStep
    \/ ListWalk

SpecStruct == InitStruct /\ [][NextStruct]_vars

\* A traversal that makes no DiffState::ignore_diff call.
NextNested ==
    \/ Line
    \/ DiffLine
    \/ Prefix
    \/ Diff
    \/ Indent
    \/ ScopeReturn

SpecNested == InitScope /\ [][NextNested]_vars

\* The types a unit can hold: enumerations that are no declarations and have
\* no enumerators.
UnitTypes == {x \in EnumerationTypes : ~x.declaration /\ x.enumerators = <<>>}

\* DiffState::sort_list on the types of two files, any call of which can fail.
NextFail ==
    \/ SortList
    \/ Line
    \/ LineOption
    \/ DiffLine
    \/ PrintIndent
    \/ Prefix
    \/ Diff
    \/ Indent
    \/ ScopeReturn
    \/ List
    \/ AlignStart
    \/ AlignStep
    \/ ListWalk
    \/ Fail

SpecFail == InitEntity /\ [][NextFail]_vars

\* The types Type::diff is called on directly.
DispatchTypes == UnitTypes \cup StructTypes

\* Type::diff is about to be called on a type of each file.
InitDispatch ==
    /\ epc = "diff"
    /\ options = [ignore_deleted |-> FALSE, ignore_added |-> FALSE]
    /\ types_a \in {<<x>> : x \in DispatchTypes}
    /\ types_b \in {<<x>> : x \in DispatchTypes}
    /\ units_a = <<>>
    /\ units_b = <<>>
    /\ functions_a = <<>>
    /\ functions_b = <<>>
    /\ html = HtmlPrinter_new([inline_depth |-> 0])
    /\ state = DiffState_new
    /\ out = <<>>
    /\ bufs = <<>>
    /\ frames = <<>>
    /\ todo = <<>>
    /\ last = Call("none")
    /\ MergeIdle
    /\ AlignIdle

\* Type::diff up to the match on the kinds; the calls of the arm follow.
TypeDiff ==
    /\ epc = "diff"
    /\ todo' = Type_diff(types_a[1], types_b[1])
    /\ epc' = "run"
    /\ UNCHANGED <<options, types_a, types_b, units_a, units_b,
                       functions_a, functions_b, html, state, out, bufs, frames, last,
                   mergeVars, alignVars>>

NextDispatch ==
    \/ TypeDiff
    \/ Line
    \/ DiffLine
    \/ PrintIndent
    \/ Prefix
    \/ Indent
    \/ PrefixDiff
    \/ ScopeReturn
    \/ List
    \/ AlignStart
    \/ AlignStep
    \/ ListWalk
    \/ Fail

SpecDispatch == InitDispatch /\ [][NextDispatch]_vars

\* The inlined subroutines of a function whose inlining nests len levels deep,
\* from the given level on: the function numbered k is inlined at level k, and
\* every one of them has the given size.
RECURSIVE InlinedChain(_, _, _)
InlinedChain(level, len, size) ==
    IF level > len THEN <<>>
    ELSE <<[abstract_origin |-> level, size |-> Some(size),
            inlined_subroutines |-> InlinedChain(level + 1, len, size)]>>

\* The functions of the two files: inlining up to MaxInline + 1 levels deep, the
\* inlined code of B of the same size as that of A or twice the size.
Subprograms(sizes) ==
    {[inlined_subroutines |-> InlinedChain(1, len, size)] :
        len \in 0..(MaxInline + 1), size \in sizes}

\* Subprogram::diff is handed one function of each file, under any
\* --inline-depth up to MaxInline.
InitInline ==
    /\ epc = "diff_function"
    /\ \E d \in 0..MaxInline :
          options = [ignore_deleted |-> FALSE, ignore_added |-> FALSE, inline_depth |-> d]
    /\ types_a = <<>>
    /\ types_b = <<>>
    /\ units_a = <<>>
    /\ units_b = <<>>
    /\ functions_a \in {<<x>> : x \in Subprograms({4})}
    /\ functions_b \in {<<x>> : x \in Subprograms({4, 8})}
    /\ html = HtmlPrinter_new([inline_depth |-> 0])
    /\ state = DiffState_new
    /\ out = <<>>
    /\ bufs = <<>>
    /\ frames = <<>>
    /\ todo = <<>>
    /\ last = Call("none")
    /\ MergeIdle
    /\ AlignIdle

\* Subprogram::diff reaches its inlined subroutines; the calls follow.
SubprogramDiff ==
    /\ epc = "diff_function"
    /\ todo' = Subprogram_diff_inlined_subroutines(functions_a[1], functions_b[1], options)
    /\ epc' = "run"
    /\ UNCHANGED <<options, types_a, types_b, units_a, units_b,
                   functions_a, functions_b, html, state, out, bufs, frames, last,
                   mergeVars, alignVars>>

NextInline ==
    \/ SubprogramDiff
    \/ Line
    \/ DiffLine
    \/ PrintIndent
    \/ Prefix
    \/ Indent
    \/ ScopeReturn
    \/ List
    \/ AlignStart
    \/ AlignStep
    \/ ListWalk

SpecInline == InitInline /\ [][NextInline]_vars

\* The labels and the rendered buffers the lines of the HtmlPrinter are given.
HtmlLabels == {<<>>, <<"size">>}
HtmlBuffers == {<<>>, <<"<", "anon", ">">>}

\* A fresh HtmlPrinter on an empty output; no text cursor is in use.
InitHtml ==
    /\ epc = "html"
    /\ options = [ignore_deleted |-> FALSE, ignore_added |-> FALSE, inline_depth |-> 0]
    /\ types_a = <<>>
    /\ types_b = <<>>
    /\ units_a = <<>>
    /\ units_b = <<>>
    /\ functions_a = <<>>
    /\ functions_b = <<>>
    /\ html = HtmlPrinter_new(options)
    /\ state = DiffState_new
    /\ out = <<>>
    /\ bufs = <<>>
    /\ frames = <<>>
    /\ todo = <<>>
    /\ last = Call("none")
    /\ MergeIdle
    /\ AlignIdle

\* The HtmlPrinter and its writer as one value.
HtmlNow == [html |-> html, out |-> out, ok |-> TRUE]

\* The HtmlPrinter has made a call that returned Ok.
HtmlCalled(p, c) ==
    /\ html' = p.html
    /\ out' = p.out
    /\ last' = c
    /\ UNCHANGED <<epc, options, types_a, types_b, units_a, units_b,
                   functions_a, functions_b, state, bufs, todo, mergeVars, alignVars>>

\* HtmlPrinter::line; the model stops calling at MaxWrites writes.
HtmlLine ==
    /\ epc = "html"
    /\ Len(out) < MaxWrites
    /\ \E label \in HtmlLabels, buf \in HtmlBuffers :
          HtmlCalled(HtmlRun(HtmlNow, HtmlPrinter_line(html, label, buf), 1, 0),
                     [Call("HtmlPrinter::line") EXCEPT !.a = label, !.b = buf])
    /\ UNCHANGED frames

\* HtmlPrinter::indent entered; the model stops opening at MaxDepth.
HtmlIndent ==
    /\ epc = "html"
    /\ Len(out) < MaxWrites
    /\ Len(frames) < MaxDepth
    /\ HtmlCalled(HtmlRun(HtmlNow, HtmlPrinter_indent_begin(html), 1, 0),
                  Call("HtmlPrinter::indent"))
    /\ frames' = Append(frames, Frame("HtmlPrinter::indent"))

\* The body of the innermost HtmlPrinter::indent returns Ok.
HtmlReturn ==
    /\ epc = "html"
    /\ frames # <<>>
    /\ HtmlCalled(HtmlRun(HtmlNow, HtmlPrinter_indent_end(html), 1, 0),
                  [Call("return") EXCEPT !.scope = "HtmlPrinter::indent"])
    /\ frames' = Pop(frames)

\* A write of the next call returns Err: the call returns at its `?`, and so
\* does every open HtmlPrinter::indent at `body(self)?`.
HtmlFail ==
    /\ epc = "html"
    /\ \E steps \in {HtmlPrinter_line(html, label, buf) :
                         label \in HtmlLabels, buf \in HtmlBuffers}
                     \cup {HtmlPrinter_indent_begin(html)}
                     \cup (IF frames # <<>> THEN {HtmlPrinter_indent_end(html)} ELSE {}) :
          \E k \in 1..HtmlWrites(steps, 1) :
              LET p == HtmlRun(HtmlNow, steps, 1, k)
              IN  html' = p.html /\ out' = p.out
    /\ frames' = <<>>
    /\ epc' = "failed"
    /\ last' = Call("Err")
    /\ UNCHANGED <<options, types_a, types_b, units_a, units_b,
                   functions_a, functions_b, state, bufs, todo, mergeVars, alignVars>>

NextHtml ==
    \/ HtmlLine
    \/ HtmlIndent
    \/ HtmlReturn
    \/ HtmlFail

SpecHtml == InitHtml /\ [][NextHtml]_vars

\* ------------------------------------------------------------- diff_file
\* Units: a name and the types filter_types lets through, at most one; a unit
\* holds no subprograms and no variables.
Units == [name : Names, types : SeqsUpTo(UnitTypes, 1)]

\* Unit::print_ref.
Unit_print_ref(u) == <<NameText(u.name)>>

\* The closure of the lines diff_file writes for a unit.
UnitLine(u) == <<"Unit: ">> \o Unit_print_ref(u)

\* writeln!(w, "").
Writeln == Call("writeln")

\* writeln!(w, "") on the writer in use: a line of no marker, no tab, no text.
Writeln_end(m) ==
    Write(m, <<[prefix |-> PrefixText("None"), tabs |-> 0, body |-> <<>>]>>)

\* Unit::diff, the match of DiffState::merge for one MergeResult of the types.
Unit_diff_item(item, flags) ==
    CASE item.kind = "Both" ->
            <<Call("DiffState::prefix_equal"), Call("DiffState::diff")>>
                \o Type_diff(item.left, item.right)
                \o <<Writeln, Return, Return>>
      [] item.kind = "Left" ->
            <<PrefixCall("a", "Less")>>
                \o (IF ~flags.ignore_deleted
                    THEN Type_print(item.left, "a") \o <<Writeln>> ELSE <<>>)
                \o <<Return>>
      [] item.kind = "Right" ->
            <<PrefixCall("b", "Greater")>>
                \o (IF ~flags.ignore_added
                    THEN Type_print(item.right, "b") \o <<Writeln>> ELSE <<>>)
                \o <<Return>>

RECURSIVE Unit_diff_items(_, _, _)
Unit_diff_items(list, i, flags) ==
    IF i > Len(list) THEN <<>>
    ELSE Unit_diff_item(list[i], flags) \o Unit_diff_items(list, i + 1, flags)

\* Unit::diff: DiffState::merge on the types of the two units (the merges of
\* the subprograms and of the variables have nothing to go through).
Unit_diff(a, b, flags) ==
    Unit_diff_items(MergeCollect(MergeIteratorNew(a.types, b.types), a.types, b.types, <<>>),
                    1, flags)

\* diff_file, the match of DiffState::merge for one MergeResult of the units,
\* flags.unit being None.
diff_file_item(item, flags) ==
    CASE item.kind = "Both" ->
            <<Call("DiffState::prefix_equal"), LineCall("a", UnitLine(item.left))>>
                \o Unit_diff(item.left, item.right, flags)
                \o <<Return>>
      [] item.kind = "Left" ->
            <<PrefixCall("a", "Less"), LineCall("a", UnitLine(item.left)), Return>>
      [] item.kind = "Right" ->
            <<PrefixCall("b", "Greater"), LineCall("b", UnitLine(item.right)), Return>>

RECURSIVE diff_file_items(_, _, _)
diff_file_items(list, i, flags) ==
    IF i > Len(list) THEN <<>>
    ELSE diff_file_item(list[i], flags) \o diff_file_items(list, i + 1, flags)

\* diff_file is called on two files of at most one unit each.
InitFile ==
    /\ epc = "diff_file"
    /\ options \in [ignore_deleted : BOOLEAN, ignore_added : BOOLEAN]
    /\ types_a = <<>>
    /\ types_b = <<>>
    /\ units_a \in SeqsUpTo(Units, 1)
    /\ units_b \in SeqsUpTo(Units, 1)
    /\ functions_a = <<>>
    /\ functions_b = <<>>
    /\ html = HtmlPrinter_new([inline_depth |-> 0])
    /\ state = DiffState_new
    /\ out = <<>>
    /\ bufs = <<>>
    /\ frames = <<>>
    /\ todo = <<>>
    /\ last = Call("none")
    /\ MergeIdle
    /\ AlignIdle

\* diff_file up to the loop of DiffState::merge over the units; the loop's
\* calls follow.
DiffFile ==
    /\ epc = "diff_file"
    /\ todo' = diff_file_items(
                   MergeCollect(MergeIteratorNew(units_a, units_b), units_a, units_b, <<>>),
                   1, options)
    /\ epc' = "run"
    /\ UNCHANGED <<options, types_a, types_b, units_a, units_b,
                       functions_a, functions_b, html, state, out, bufs, frames, last,
                   mergeVars, alignVars>>

\* DiffState::prefix_equal entered.
PrefixEqual ==
    \E c \in CallsNow :
        /\ c.op = "DiffState::prefix_equal"
        /\ Becomes(DiffState_prefix_equal_begin(Machine))
        /\ Called(c)
        /\ UNCHANGED <<mergeVars, alignVars>>

\* writeln!(w, "").
WriteLn ==
    \E c \in CallsNow :
        /\ c.op = "writeln"
        /\ Becomes(Writeln_end(Machine))
        /\ Called(c)
        /\ UNCHANGED <<mergeVars, alignVars>>

NextFile ==
    \/ DiffFile
    \/ Line
    \/ LineOption
    \/ DiffLine
    \/ PrintIndent
    \/ Prefix
    \/ PrefixEqual
    \/ Diff
    \/ Indent
    \/ WriteLn
    \/ ScopeReturn
    \/ List
    \/ AlignStart
    \/ AlignStep
    \/ ListWalk

SpecFile == InitFile /\ [][NextFile]_vars

\* The namespaces of up to n levels, named from Names at every level.
RECURSIVE Namespaces(_)
Namespaces(n) ==
    IF n = 0 THEN {}
    ELSE {Namespace_new(None, nm) : nm \in Names}
            \cup {Namespace_new(Some(ns), nm) : ns \in Namespaces(n - 1), nm \in Names}

\* The types of the units Unit::diff is called on: enumerations without
\* enumerators in any namespace or in none, and structs of at most one member
\* in no namespace.
NamespaceTypes ==
    {[name |-> nm, declaration |-> FALSE, byte_size |-> None, enumerators |-> <<>>,
      namespace |-> ns] :
        nm \in Names, ns \in {None} \cup {Some(n) : n \in Namespaces(MaxNamespaces)}}
        \cup {x \in StructTypes : Len(x.members) <= 1}

\* diff_file is called on two files of one unit each, both named 1, so that
\* Unit::diff merges their types; a unit holds at most one type.
InitUnit ==
    /\ epc = "diff_file"
    /\ options = [ignore_deleted |-> FALSE, ignore_added |-> FALSE]
    /\ types_a = <<>>
    /\ types_b = <<>>
    /\ units_a \in {<<[name |-> 1, types |-> ts]>> : ts \in SeqsUpTo(NamespaceTypes, 1)}
    /\ units_b \in {<<[name |-> 1, types |-> ts]>> : ts \in SeqsUpTo(NamespaceTypes, 1)}
    /\ functions_a = <<>>
    /\ functions_b = <<>>
    /\ html = HtmlPrinter_new([inline_depth |-> 0])
    /\ state = DiffState_new
    /\ out = <<>>
    /\ bufs = <<>>
    /\ frames = <<>>
    /\ todo = <<>>
    /\ last = Call("none")
    /\ MergeIdle
    /\ AlignIdle

SpecUnit == InitUnit /\ [][NextFile]_vars

\* A traversal about to make its first line call or prefix scope on a new
\* DiffState.
InitPrefix ==
    /\ epc = "prefixes"
    /\ options = [ignore_deleted |-> FALSE, ignore_added |-> FALSE]
    /\ types_a = <<>>
    /\ types_b = <<>>
    /\ units_a = <<>>
    /\ units_b = <<>>
    /\ functions_a = <<>>
    /\ functions_b = <<>>
    /\ html = HtmlPrinter_new([inline_depth |-> 0])
    /\ state = DiffState_new
    /\ out = <<>>
    /\ bufs = <<>>
    /\ frames = <<>>
    /\ todo = <<>>
    /\ last = Call("none")
    /\ MergeIdle
    /\ AlignIdle

\* The closure that is running returns Err, before a call or from a call that
\* failed: every open scope call passes the Err on.
FailAny ==
    /\ epc = "prefixes"
    /\ \E m \in {Machine} \cup UNION {FailOutcomes(Machine, c) : c \in CallsNow \ {Return}} :
          Becomes(Unwind(m))
    /\ epc' = "failed"
    /\ last' = Call("Err")
    /\ UNCHANGED <<options, types_a, types_b, units_a, units_b,
                   functions_a, functions_b, html, todo, mergeVars, alignVars>>

NextPrefix ==
    \/ Line
    \/ DiffLine
    \/ Prefix
    \/ PrefixEqual
    \/ PrefixDiff
    \/ Indent
    \/ ScopeReturn
    \/ FailAny

SpecPrefix == InitPrefix /\ [][NextPrefix]_vars

\* ------------------------------------------------ claims on the traversal
\* The traversal has made all its calls.
Finished == epc = "run" /\ todo = <<>>

\* Any one call, as the action that makes it carries it out.
Exec(m, c) ==
    CASE c.op = "PrintState::line" -> PrintState_line(m, c.side, c.a)
      [] c.op = "PrintState::line_option" -> PrintState_line_option(m, c.side, c.a)
      [] c.op = "PrintState::indent" -> PrintState_indent_begin(m, c.side)
      [] c.op = "PrintState::prefix" -> PrintState_prefix_begin(m, c.side, c.prefix)
      [] c.op = "DiffState::line" -> DiffState_line(m, c.a, c.b)
      [] c.op = "DiffState::diff" -> DiffState_diff_begin(m)
      [] c.op = "DiffState::ignore_diff" -> DiffState_ignore_diff_begin(m, c.flag)
      [] c.op = "DiffState::indent" -> DiffState_indent_begin(m)
      [] c.op = "DiffState::prefix_diff" -> DiffState_prefix_diff_begin(m)
      [] c.op = "DiffState::prefix_equal" -> DiffState_prefix_equal_begin(m)
      [] c.op = "writeln" -> Writeln_end(m)
      [] c.op = "return" -> ScopeEnd(m)

RECURSIVE Run(_, _, _)
Run(m, calls, i) == IF i > Len(calls) THEN m ELSE Run(Exec(m, calls[i]), calls, i + 1)

\* What printing x on its own writes: PrintState::sort_list calls x.print on a
\* new PrintState.
PrintedAlone(x) ==
    Run([state |-> DiffState_new, out |-> <<>>, bufs |-> <<>>, frames |-> <<>>],
        EnumerationType_print(x, "a"), 1).out

IsRemoved(l) == l.prefix = "- "
IsAdded(l) == l.prefix = "+ "

\* Both files hold the same type.
IdenticalCopy == types_a # <<>> /\ types_b = types_a

\* C6: while and after a type is diffed inside DiffState::diff against an
\* identical copy of itself (same fields, same enumerators in the same order),
\* no line is written to the real output and both sides' diff flags are false.
C6_IdenticalCopySilent ==
    IdenticalCopy => out = <<>> /\ ~state.a.diff /\ ~state.b.diff

\* A type with every optional line and an enumerator has been diffed against
\* its copy.
C6_Witness ==
    /\ Finished
    /\ IdenticalCopy
    /\ types_a[1].declaration
    /\ types_a[1].byte_size # None
    /\ types_a[1].enumerators # <<>>

\* The type of side A has no counterpart with its identifier on side B.
OnlyInA ==
    /\ types_a # <<>>
    /\ \A i \in 1..Len(types_b) : cmp_id(types_a[1], types_b[i]) # "Equal"

\* The lines print writes for x, each under the marker of DiffPrefix::Less.
PrintedAsRemoved(x) ==
    [i \in 1..Len(PrintedAlone(x)) |-> [PrintedAlone(x)[i] EXCEPT !.prefix = "- "]]

\* C8 as stated: for a type only in A, the diff writes exactly the lines that
\* printing the type alone writes, in order, with the same tabs and body, each
\* under the Removed marker.
C8_Original ==
    (Finished /\ OnlyInA) => SelectSeq(out, IsRemoved) = PrintedAsRemoved(types_a[1])

\* C8: for a type only in A, the diff writes exactly the lines that printing
\* the type alone writes, in order, with the same tabs and body, each under the
\* Removed marker, unless Options.ignore_deleted is set, and then it writes no
\* Removed line at all.
C8_RemovedAsPrinted ==
    (Finished /\ OnlyInA) =>
        SelectSeq(out, IsRemoved) =
            IF options.ignore_deleted THEN <<>> ELSE PrintedAsRemoved(types_a[1])

\* A type only in A, with every optional line and an enumerator, has been
\* written next to a type only in B.
C8_Witness ==
    /\ Finished
    /\ OnlyInA
    /\ types_b # <<>>
    /\ ~options.ignore_deleted
    /\ types_a[1].declaration
    /\ types_a[1].byte_size # None
    /\ types_a[1].enumerators # <<>>
    /\ Len(SelectSeq(out, IsRemoved)) = 5
    /\ Len(SelectSeq(out, IsAdded)) > 0

\* The writer `w` of the running closure, given the scratch buffers and the output.
Writer(bs, o) == IF bs = <<>> THEN o ELSE Top(bs)

\* The writer `w` that the innermost DiffState::diff was called with.
WriterBelow(bs, o) == IF Len(bs) = 1 THEN o ELSE bs[Len(bs) - 1]

\* A line as PrintState::line writes it.
Text(prefix, tabs, body) == [prefix |-> prefix, tabs |-> tabs, body |-> body]

Unmarked(buf) == \A i \in 1..Len(buf) : ~IsRemoved(buf[i]) /\ ~IsAdded(buf[i])

\* C7: DiffState::diff clears both diff flags and gives its body an empty
\* scratch buffer; while a scratch buffer is open no step but the return of the
\* outermost DiffState::diff changes the real output; at its return the buffer
\* is either appended to the writer the call was given or dropped, appended only
\* if a diff flag is true then, and dropped, nothing reaching the real output,
\* when the body left no Removed and no Added line in it.
C7_DiffScope ==
    [][ /\ last'.op = "DiffState::diff" =>
              /\ ~state'.a.diff
              /\ ~state'.b.diff
              /\ bufs' = Append(bufs, <<>>)
              /\ out' = out
        /\ (bufs # <<>> /\ ~(last'.op = "return" /\ last'.scope = "DiffState::diff"
                              /\ Len(bufs) = 1)) => out' = out
        /\ (last'.op = "return" /\ last'.scope = "DiffState::diff") =>
              LET w == WriterBelow(bufs, out)
                  after == Writer(bufs', out')
              IN  /\ Len(bufs') = Len(bufs) - 1
                  /\ after = w \/ after = w \o Top(bufs)
                  /\ after # w => (state.a.diff \/ state.b.diff)
                  /\ Unmarked(Top(bufs)) => (after = w /\ out' = out)
      ]_vars

\* The outermost DiffState::diff has returned with a diff flag its body set, and
\* the Removed line of the body is in the real output.
C7_Witness ==
    /\ epc = "any"
    /\ last.op = "return"
    /\ last.scope = "DiffState::diff"
    /\ frames = <<>>
    /\ state.a.diff
    /\ out # <<>>
    /\ IsRemoved(out[1])

\* C9: DiffState::line, given the two rendered buffers: if they are the same
\* it writes the buffer once under the Equal marker at side A's indent and
\* changes no diff flag; otherwise it writes buffer A under the Removed marker
\* and then buffer B under the Added marker; an empty buffer is not written.
C9_LinePaired ==
    [][ last'.op = "DiffState::line" =>
            LET a == last'.a
                b == last'.b
                w == Writer(bufs, out)
                after == Writer(bufs', out')
            IN  IF a = b
                THEN /\ after = w \o (IF a = <<>> THEN <<>>
                                      ELSE <<Text("  ", state.a.indent, a)>>)
                     /\ state'.a.diff = state.a.diff
                     /\ state'.b.diff = state.b.diff
                ELSE after = w \o (IF a = <<>> THEN <<>>
                                   ELSE <<Text("- ", state.a.indent, a)>>)
                               \o (IF b = <<>> THEN <<>>
                                   ELSE <<Text("+ ", state.b.indent, b)>>)
      ]_vars

\* DiffState::line was given two different sizes inside DiffState::indent, and
\* the writer ends with the Removed line and the Added line.
C9_Witness ==
    /\ epc = "any"
    /\ last.op = "DiffState::line"
    /\ last.a # <<>>
    /\ last.b # <<>>
    /\ last.a # last.b
    /\ state.a.indent > 0
    /\ LET w == Writer(bufs, out)
       IN  /\ Len(w) >= 2
           /\ w[Len(w) - 1] = Text("- ", state.a.indent, last.a)
           /\ w[Len(w)] = Text("+ ", state.b.indent, last.b)

\* The lines of the output whose text is body.
LinesOf(body) == {i \in 1..Len(out) : out[i].body = body}

\* Struct B has the members of struct A and one more behind them, of a name no
\* member of A has, and the two structs have been written.
GainedMember ==
    /\ Finished
    /\ types_a # <<>> /\ types_b # <<>>
    /\ TypeKind(types_a[1]) = "Struct" /\ TypeKind(types_b[1]) = "Struct"
    /\ LET ma == types_a[1].members
           mb == types_b[1].members
       IN  /\ Len(mb) = Len(ma) + 1
           /\ SubSeq(mb, 1, Len(ma)) = ma
           /\ \A i \in 1..Len(ma) : ma[i].name # mb[Len(mb)].name

\* The header line is written under the Equal marker and the new member's line
\* once, under the Added marker.
HeaderEqualMemberAdded ==
    LET b == types_b[1]
        z == b.members[Len(b.members)]
    IN  /\ out # <<>>
        /\ out[1] = Text(PrefixText("Equal"), 0, StructType_print_ref(b))
        /\ Cardinality(LinesOf(Member_print_name(z))) = 1
        /\ \A i \in LinesOf(Member_print_name(z)) : IsAdded(out[i])

\* C11 as stated: when struct B has the members of struct A and one more
\* behind them, the header is written under the Equal marker, the new member
\* under the Added marker, and no line is written for a member of A.
C11_Original ==
    GainedMember =>
        /\ HeaderEqualMemberAdded
        /\ \A i \in 1..Len(types_a[1].members) :
              LinesOf(Member_print_name(types_a[1].members[i])) = {}

\* C11: when struct B has the members of struct A and one more behind them,
\* the header is written under the Equal marker, the new member under the
\* Added marker, and each member of A as one line under the Equal marker, none
\* under the Removed or the Added marker.
C11_GainedMember ==
    GainedMember =>
        /\ HeaderEqualMemberAdded
        /\ \A i \in 1..Len(types_a[1].members) :
              LET l == LinesOf(Member_print_name(types_a[1].members[i]))
              IN  /\ Cardinality(l) = 1
                  /\ \A j \in l : out[j].prefix = PrefixText("Equal")

\* Point with x and y gains z.
C11_Witness ==
    /\ GainedMember
    /\ Len(types_a[1].members) = 2
    /\ \E i \in 1..Len(out) : IsAdded(out[i])
                                /\ out[i].body = Member_print_name(types_b[1].members[3])
\* C18, in a traversal without DiffState::ignore_diff: a DiffState::diff whose
\* body left a Removed or an Added line in its buffer appends the buffer to the
\* writer it was given, whatever nested DiffState::diff the body ran afterwards.
C18_FlushAfterNested ==
    [][ (last'.op = "return" /\ last'.scope = "DiffState::diff"
            /\ ~Unmarked(Top(bufs)))
          => Writer(bufs', out') = WriterBelow(bufs, out) \o Top(bufs)
      ]_vars

\* The return of a DiffState::ignore_diff called with flag = TRUE.
IgnoreDiffReturns ==
    /\ last'.op = "return"
    /\ last'.scope = "DiffState::ignore_diff"
    /\ Top(frames).flag

\* C19 as stated: a diff flag that is true goes back to false only in the step
\* that enters DiffState::diff.
C19_Original ==
    [][ \A s \in Sides :
            (state[s].diff /\ ~state'[s].diff) => last'.op = "DiffState::diff"
      ]_vars

\* C19: a diff flag that is true goes back to false only in the step that
\* enters DiffState::diff, or at the return of a DiffState::ignore_diff called
\* with flag = TRUE, which puts back the flags of before the call.
C19_ClearedOnlyByScopes ==
    [][ \A s \in Sides :
            (state[s].diff /\ ~state'[s].diff) =>
                \/ last'.op = "DiffState::diff"
                \/ IgnoreDiffReturns /\ ~Top(frames)[IF s = "a" THEN "a_diff" ELSE "b_diff"]
      ]_vars

\* A flag set inside DiffState::diff has been cleared by the return of
\* DiffState::ignore_diff(true), the Removed line staying in the buffer.
C19_Witness ==
    /\ epc = "any"
    /\ last.op = "return"
    /\ last.scope = "DiffState::ignore_diff"
    /\ bufs # <<>>
    /\ ~Unmarked(Top(bufs))
    /\ ~state.a.diff
    /\ ~state.b.diff

\* C20: DiffState::ignore_diff keeps the flags of before the call and changes
\* nothing on entry; lines written while it is open reach the writer as they do
\* outside it; its return with flag = TRUE puts both flags back to the values
\* of before the call, with flag = FALSE leaves them as the body set them, and
\* takes no line back.
C20_IgnoreScope ==
    [][ /\ last'.op = "DiffState::ignore_diff" =>
              /\ Top(frames').a_diff = state.a.diff
              /\ Top(frames').b_diff = state.b.diff
              /\ Top(frames').flag = last'.flag
              /\ state' = state
              /\ out' = out /\ bufs' = bufs
        /\ (last'.op = "PrintState::line"
              /\ \E i \in 1..Len(frames) : frames[i].kind = "DiffState::ignore_diff") =>
              Len(Writer(bufs', out')) = Len(Writer(bufs, out)) + 1
        /\ (last'.op = "return" /\ last'.scope = "DiffState::ignore_diff") =>
              /\ out' = out /\ bufs' = bufs
              /\ state'.a.diff = IF Top(frames).flag THEN Top(frames).a_diff
                                 ELSE state.a.diff
              /\ state'.b.diff = IF Top(frames).flag THEN Top(frames).b_diff
                                 ELSE state.b.diff
        /\ \A i \in 1..Len(frames) :
              (i <= Len(frames') /\ frames[i].kind = "DiffState::ignore_diff")
                  => frames'[i] = frames[i]
      ]_vars

\* DiffState::ignore_diff(true) has returned at top level: the Removed line its
\* body wrote is in the output and both flags are false as before the call.
C20_Witness ==
    /\ epc = "any"
    /\ last.op = "return"
    /\ last.scope = "DiffState::ignore_diff"
    /\ frames = <<>>
    /\ out # <<>>
    /\ IsRemoved(out[1])
    /\ ~state.a.diff
    /\ ~state.b.diff
\* The unit of file A has no counterpart of its name in file B.
UnitOnlyInA ==
    /\ units_a # <<>>
    /\ \A i \in 1..Len(units_b) : cmp_id(units_a[1], units_b[i]) # "Equal"

\* The unit of file B has no counterpart of its name in file A.
UnitOnlyInB ==
    /\ units_b # <<>>
    /\ \A i \in 1..Len(units_a) : cmp_id(units_b[1], units_a[i]) # "Equal"

\* C12: when diff_file has run, a unit only in A has been written under the
\* Removed marker and nothing else for it, a unit only in B under the Added
\* marker; with ignore_deleted (ignore_added) set, no line has been written for
\* the unit and it has set no diff flag.
C12_OneSidedUnit ==
    Finished =>
        /\ UnitOnlyInA =>
              IF options.ignore_deleted
              THEN SelectSeq(out, IsRemoved) = <<>> /\ ~state.a.diff
              ELSE /\ SelectSeq(out, IsRemoved) # <<>>
                   /\ \A i \in 1..Len(out) : IsRemoved(out[i]) \/ IsAdded(out[i])
        /\ UnitOnlyInB =>
              IF options.ignore_added
              THEN SelectSeq(out, IsAdded) = <<>> /\ ~state.b.diff
              ELSE /\ SelectSeq(out, IsAdded) # <<>>
                   /\ \A i \in 1..Len(out) : IsRemoved(out[i]) \/ IsAdded(out[i])
\* Type::diff has been called on two types of different kinds.
KindsDiffer ==
    /\ epc \in {"run", "failed"}
    /\ TypeKind(types_a[1]) # TypeKind(types_b[1])

\* C13: Type::diff on two types of different kinds makes no call on the
\* cursors but returns Err: nothing is written for the pair and the call never
\* ends with Ok.
C13_MismatchIsError ==
    KindsDiffer =>
        /\ out = <<>>
        /\ bufs = <<>>
        /\ frames = <<>>
        /\ epc = "run" => todo = <<Call("Err")>>
        /\ epc = "failed" => last.op = "Err"

\* Type::diff has returned Err for an enumeration and a struct.
C13_Witness ==
    /\ KindsDiffer
    /\ epc = "failed"
    /\ TypeKind(types_a[1]) = "Enumeration"
    /\ TypeKind(types_b[1]) = "Struct"

\* The scratch buffers of the DiffState::diff calls whose closure returns Err
\* when the next call fails: all that are open, but for a failing flush the
\* innermost one, whose closure has returned Ok.
FailedBodies ==
    IF todo # <<>> /\ Head(todo).op = "return" THEN Len(bufs) - 1 ELSE Len(bufs)

\* l begins with k.
StartsWith(l, k) == Len(k) <= Len(l) /\ SubSeq(l, 1, Len(k)) = k

\* C14: when a call returns Err, the traversal ends in that step with no scope
\* call open and no call left to make, and nothing is done afterwards; no
\* buffer of a DiffState::diff whose closure failed reaches the real output,
\* which keeps what it held and gains at most what the failing call itself
\* wrote before it failed.
C14_FailureStops ==
    [][ /\ epc # "failed"
        /\ epc' = "failed" =>
              /\ todo' = <<>>
              /\ frames' = <<>>
              /\ bufs' = <<>>
              /\ FailedBodies > 0 => out' = out
              /\ StartsWith(out', out)
              /\ Head(todo).op # "return" => Len(out') <= Len(out) + 2
              /\ Head(todo).op = "return" => StartsWith(out \o Top(bufs), out')
      ]_vars

\* A write has failed inside the DiffState::diff of two types, after a Removed
\* line went to its buffer, and the real output is empty.
C14_Witness ==
    /\ epc = "failed"
    /\ types_a # <<>>
    /\ types_b # <<>>
    /\ cmp_id(types_a[1], types_b[1]) = "Equal"
    /\ state.a.diff
    /\ out = <<>>
\* The level of inlining the line i of the output belongs to: the function
\* numbered k is inlined at level k; 0 for any other line.
InlinedLevel(i) ==
    IF \E k \in 1..(MaxInline + 1) :
           out[i].body = InlinedSubroutine_print_name(
                             [abstract_origin |-> k, size |-> Some(4)])
           \/ out[i].body = InlinedSubroutine_print_name(
                                [abstract_origin |-> k, size |-> Some(8)])
    THEN CHOOSE k \in 1..(MaxInline + 1) :
             out[i].body[Len(out[i].body)] = NameText(k)
    ELSE 0

\* C15: the output of Subprogram::diff holds no inlined subroutine from a
\* level of inlining deeper than inline_depth.
C15_DepthCapped ==
    \A i \in 1..Len(out) : InlinedLevel(i) <= options.inline_depth

\* An unmatched element is being printed on one side only: a
\* DiffState::prefix_less or DiffState::prefix_greater is open.
OneSided == \E i \in 1..Len(frames) : frames[i].kind = "PrintState::prefix"

\* C21 as stated: the indents of the two sides are equal in every state.
C21_Original == state.a.indent = state.b.indent

\* C21: in every state of a diff traversal in which no unmatched element is
\* being printed on one side only, the indent of side A equals the indent of
\* side B.
C21_EqualOutsideOneSided == ~OneSided => state.a.indent = state.b.indent

\* C21 witness: a type only in A has been printed with its indented lines, its
\* prefix_less has returned and the traversal goes on inside no one-sided print.
C21_Witness ==
    /\ ~OneSided
    /\ last.op = "return" /\ last.scope = "PrintState::prefix"
    /\ \E i \in 1..Len(out) : IsRemoved(out[i]) /\ out[i].tabs > 0
    /\ state.a.indent = state.b.indent

\* C22: every open indent call has raised the indent by exactly one, and every
\* indent call that has returned, with Ok or with Err, has left the indent as
\* it was before the call: the indent of the HtmlPrinter, which starts at 0,
\* is the number of its indent calls that are open.
C22_IndentRestored == html.indent = Len(frames)

\* The prefix scopes.
PrefixScopes == {"PrintState::prefix", "DiffState::prefix_equal", "DiffState::prefix_diff"}

\* The prefix of a side under the first n open scope calls: DiffPrefix::None
\* with no prefix scope among them, else what the innermost prefix scope that
\* covers the side has set: prefix_equal Equal on both, prefix_diff Less on A
\* and Greater on B, prefix_less Less on A only, prefix_greater Greater on B only.
RECURSIVE PrefixUnder(_, _, _)
PrefixUnder(fs, n, side) ==
    IF n = 0 THEN "None"
    ELSE CASE fs[n].kind = "DiffState::prefix_equal" -> "Equal"
           [] fs[n].kind = "DiffState::prefix_diff" ->
                 IF side = "a" THEN "Less" ELSE "Greater"
           [] fs[n].kind = "PrintState::prefix" /\ fs[n].side = side ->
                 IF side = "a" THEN "Less" ELSE "Greater"
           [] OTHER -> PrefixUnder(fs, n - 1, side)

\* C23: the prefix of each side is the one its innermost open prefix scope has
\* set, so a prefix scope that has returned has left both prefixes as they were
\* before the call and prefix_less and prefix_greater touch one side only; and
\* the innermost open prefix scope, its body returning Err, leaves both
\* prefixes as they were before the call as well.
C23_PrefixesRestored ==
    /\ \A s \in Sides : state[s].prefix = PrefixUnder(frames, Len(frames), s)
    /\ (frames # <<>> /\ Top(frames).kind \in PrefixScopes) =>
          \A s \in Sides :
              ScopeFail(Machine).state[s].prefix = PrefixUnder(frames, Len(frames) - 1, s)

\* C23 witness: a prefix_less inside a prefix_equal has written a line and
\* returned, and both prefixes are Equal again.
C23_Witness ==
    /\ last.op = "return" /\ last.scope = "PrintState::prefix"
    /\ Len(frames) = 1 /\ Top(frames).kind = "DiffState::prefix_equal"
    /\ state.a.prefix = "Equal" /\ state.b.prefix = "Equal"
    /\ \E i \in 1..Len(out) : IsRemoved(out[i])

\* C24: PrintState::line on one cursor appends one line to its writer, made of
\* the marker of the cursor's prefix ("" for None, two spaces for Equal, "- "
\* for Removed, "+ " for Added), one tab per level of the cursor's indent and the
\* rendered body; it sets the cursor's diff flag under Removed and Added and
\* leaves it as it was under None and Equal; the other cursor, the indent and
\* the prefix are left as they were.
C24_EmitLine ==
    [][ last'.op = "PrintState::line" =>
            LET s == last'.side
                o == IF s = "a" THEN "b" ELSE "a"
                ps == state[s]
                marker == CASE ps.prefix = "None" -> ""
                            [] ps.prefix = "Equal" -> "  "
                            [] ps.prefix = "Less" -> "- "
                            [] ps.prefix = "Greater" -> "+ "
            IN  /\ Writer(bufs', out') = Append(Writer(bufs, out),
                                                [prefix |-> marker, tabs |-> ps.indent,
                                                 body |-> last'.a])
                /\ state'[s].diff = (ps.diff \/ ps.prefix \in {"Less", "Greater"})
                /\ state'[s].indent = ps.indent
                /\ state'[s].prefix = ps.prefix
                /\ state'[o] = state[o]
      ]_vars

\* C24 witness: side B, under Added and one level in, has written a line: the
\* line is the last of the output and only B's diff flag is set.
C24_Witness ==
    /\ last.op = "PrintState::line" /\ last.side = "b"
    /\ state.b.prefix = "Greater" /\ state.b.indent = 1
    /\ state.b.diff /\ ~state.a.diff
    /\ out # <<>> /\ out[Len(out)] = Text("+ ", 1, last.a)

\* What the calls from the i-th on render for a side: the buffer of the side in
\* a DiffState::line, the body of a PrintState::line on the side.
RECURSIVE RenderedOn(_, _, _)
RenderedOn(calls, side, i) ==
    IF i > Len(calls) THEN <<>>
    ELSE (CASE calls[i].op = "DiffState::line" ->
                  <<IF side = "a" THEN calls[i].a ELSE calls[i].b>>
            [] calls[i].op = "PrintState::line" /\ calls[i].side = side -> <<calls[i].a>>
            [] OTHER -> <<>>)
         \o RenderedOn(calls, side, i + 1)

\* C25: the script the aligner returns has lenA steps that are Diagonal or
\* Horizontal, lenB steps that are Diagonal or Vertical and no None step, and
\* the calls DiffState::list makes for it render every element of A once in the
\* order of A and every element of B once in the order of B.
C25_EveryElementOnce ==
    apc = "done" =>
        /\ CountOf(result, "None") = 0
        /\ CountOf(result, "Diagonal") + CountOf(result, "Horizontal") = Len(item1)
        /\ CountOf(result, "Diagonal") + CountOf(result, "Vertical") = Len(item2)
        /\ LET calls == DiffState_list_walk(result, item1, item2, 1, 0, 0)
           IN  /\ RenderedOn(calls, "a", 1)
                     = [i \in 1..Len(item1) |-> Enumerator_print_name_value(item1[i])]
               /\ RenderedOn(calls, "b", 1)
                     = [i \in 1..Len(item2) |-> Enumerator_print_name_value(item2[i])]

\* C25 witness: a script returned for two lists of the longest length that has a
\* Diagonal, a Horizontal and a Vertical step.
C25_Witness ==
    /\ apc = "done"
    /\ Len(item1) = MaxLen /\ Len(item2) = MaxLen
    /\ CountOf(result, "Diagonal") > 0
    /\ CountOf(result, "Horizontal") > 0
    /\ CountOf(result, "Vertical") > 0

Max(x, y) == IF x > y THEN x ELSE y

\* C26 as stated: the length of the returned script is max(lenA, lenB) minus
\* the number of its Diagonal steps.
C26_Original ==
    apc = "done" =>
        Len(result) = Max(Len(item1), Len(item2)) - CountOf(result, "Diagonal")

\* C26: the length of the returned script is lenA + lenB minus the number of
\* its Diagonal steps, each of which stands for one deletion and one insertion.
C26_ScriptLength ==
    apc = "done" =>
        Len(result) = Len(item1) + Len(item2) - CountOf(result, "Diagonal")

\* C26 witness: a script of two steps returned for an A of two elements and a B
\* of one, one step being Diagonal.
C26_Witness ==
    /\ apc = "done"
    /\ Len(item1) = 2 /\ Len(item2) = 1
    /\ CountOf(result, "Diagonal") = 1
    /\ Len(result) = 2

\* The grid nodes that are not settled.
Undone(nd) == Cardinality({i \in DOMAIN nd : ~nd[i].done})

\* C27: every turn of the search loop either pops (0,0) and returns the script,
\* or settles exactly one node that was not settled, or drops the State of a
\* settled node from the heap; a settled node is never changed again and the
\* panic is not reached.  The unsettled nodes and the heap are finite, so the
\* loop ends, and it ends with the return.
C27_SearchTerminates ==
    [][ apc = "search" =>
            /\ \A i \in DOMAIN node : node[i].done => node'[i] = node[i]
            /\ \/ /\ apc' = "done"
                  /\ \E s \in heap \ heap' : s.index1 = 0 /\ s.index2 = 0
               \/ /\ apc' = "search"
                  /\ Undone(node') = Undone(node) - 1
               \/ /\ apc' = "search"
                  /\ node' = node
                  /\ heap' \subseteq heap
                  /\ Cardinality(heap') = Cardinality(heap) - 1
      ]_vars

\* C27 witness: the script for two lists of the longest length has been
\* returned while States are still in the heap and nodes are not settled.
C27_Witness ==
    /\ apc = "done"
    /\ Len(item1) = MaxLen /\ Len(item2) = MaxLen
    /\ Len(result) >= MaxLen
    /\ heap # {}
    /\ Undone(node) > 0

\* The one type of the unit of side A and of side B, when both units hold one.
BothHoldOne == Len(units_a) = 1 /\ Len(units_b) = 1
                  /\ Len(units_a[1].types) = 1 /\ Len(units_b[1].types) = 1

\* C29: Type::cmp_id returns Equal only for two types of the same kind, and
\* Unit::diff's merge of the types of two units never calls Type::diff on two
\* types of different kinds (the call that ends in Err).
C29_SameKindPairs ==
    /\ BothHoldOne =>
          (Type_cmp_id(units_a[1].types[1], units_b[1].types[1]) = "Equal"
              => TypeKind(units_a[1].types[1]) = TypeKind(units_b[1].types[1]))
    /\ \A i \in 1..Len(todo) : todo[i].op # "Err"
    /\ last.op # "Err"

\* C29 witness: the traversal of two units is over, A's unit holding a struct
\* and B's an enumeration of the same name in no namespace, both written.
C29_Witness ==
    /\ BothHoldOne
    /\ TypeKind(units_a[1].types[1]) = "Struct"
    /\ TypeKind(units_b[1].types[1]) = "Enumeration"
    /\ units_a[1].types[1].name = units_b[1].types[1].name
    /\ units_b[1].types[1].namespace = None
    /\ epc = "run" /\ todo = <<>>
    /\ state.a.diff /\ state.b.diff

\* The names of a namespace chain from the outermost namespace to the innermost.
RECURSIVE NamesOf(_)
NamesOf(ns) ==
    IF ns.parent # None THEN Append(NamesOf(ns.parent[1]), ns.name) ELSE <<ns.name>>

\* The order of two name chains level by level from the outermost: the first
\* level that differs decides, and a proper prefix comes first.
RECURSIVE ChainOrder(_, _, _)
ChainOrder(x, y, i) ==
    IF i > Len(x) /\ i > Len(y) THEN "Equal"
    ELSE IF i > Len(x) THEN "Less"
    ELSE IF i > Len(y) THEN "Greater"
    ELSE IF x[i] # y[i] THEN CmpNat(x[i], y[i])
    ELSE ChainOrder(x, y, i + 1)

\* C30: Namespace::cmp of the namespaces of two types is the order of their
\* name chains from the outermost level to the innermost: Equal only for the
\* same length and the same name at every level, the outermost included, and
\* Less for a proper prefix.
C30_NamespaceOrder ==
    (BothHoldOne
        /\ Type_namespace(units_a[1].types[1]) # None
        /\ Type_namespace(units_b[1].types[1]) # None) =>
        LET a == units_a[1].types[1].namespace[1]
            b == units_b[1].types[1].namespace[1]
        IN  Namespace_cmp(a, b) = ChainOrder(NamesOf(a), NamesOf(b), 1)

\* The fields diff_cost compares for a kind, each as whether the two items
\* agree in it: name and type, name and value, function and size, the function
\* called, name and segment, name.
Compared(k, a, b) ==
    CASE k = "InlinedSubroutine" -> <<a.abstract_origin = b.abstract_origin, a.size = b.size>>
      [] k = "Call" ->
            LET function_a == functions_by_address_get(functions_a, a.to)
                function_b == functions_by_address_get(functions_b, b.to)
            IN  <<IF function_a # None /\ function_b # None
                  THEN cmp_id(function_a[1], function_b[1]) = "Equal"
                  ELSE function_a = None /\ function_b = None>>
      [] k = "Section" -> <<a.name = b.name, a.segment = b.segment>>
      [] k = "Symbol" -> <<a.name = b.name>>
      [] OTHER -> <<a.name = b.name, a.val = b.val>>

\* C28: for every kind of aligned entity the cost of a pair lies in
\* 0..2 * step_cost: 0 when the two items agree in every compared field,
\* 2 * step_cost when they agree in none, and strictly in between otherwise.
C28_PairCost ==
    (apc = "done" /\ Len(item1) = 1 /\ Len(item2) = 1) =>
        LET c == diff_cost(kind, item1[1], item2[1])
            eq == Compared(kind, item1[1], item2[1])
            all == \A i \in 1..Len(eq) : eq[i]
            no == \A i \in 1..Len(eq) : ~eq[i]
        IN  /\ c \in 0..(2 * step_cost(kind))
            /\ all => c = 0
            /\ no => c = 2 * step_cost(kind)
            /\ (~all /\ ~no) => (0 < c /\ c < 2 * step_cost(kind))

====
